---- MODULE Spec2Model ----
(***************************************************************************)
(* State-machine model of the todo.txt terminal UI engine.                 *)
(*                                                                         *)
(* Two interactive engines live in the repository and both are modelled;   *)
(* the variable impl says which one a behaviour is about:                  *)
(*   "legacy"  - keyboardTUI (readline key handler mutating a TUIState)    *)
(*   "opentui" - the zustand store useTodoStore + the useKeyboard hook     *)
(*                                                                         *)
(* A text is a sequence of symbols.  A symbol is a one-character string    *)
(* (" ", "+", "@", ":", "(", ")", "x", "A".."Z", "0".."9") or an atom that *)
(* stands for a fixed run of word characters: "w", "v" (plain words),      *)
(* "h", "k" (tag names), "due" (the word due) and "D1".."D4" (ISO dates    *)
(* YYYY-MM-DD of four consecutive days; dayOf gives the day number).       *)
(***************************************************************************)
EXTENDS Integers, Sequences, FiniteSets, TLC

NULL == "null"

Letters ==
  {"A","B","C","D","E","F","G","H","I","J","K","L","M",
   "N","O","P","Q","R","S","T","U","V","W","X","Y","Z"}

Digits == {"0","1","2","3","4","5","6","7","8","9"}

DateSyms == {"D1","D2","D3","D4"}

\* The ISO string of day d (new Date().toISOString().split('T')[0]).
isoDate(d) == CASE d = 1 -> "D1" [] d = 2 -> "D2" [] d = 3 -> "D3" [] OTHER -> "D4"

\* Day number of a date symbol; ISO strings compare as their days do.
dayOf(s) == CASE s = "D1" -> 1 [] s = "D2" -> 2 [] s = "D3" -> 3 [] OTHER -> 4

-----------------------------------------------------------------------------
(* Generic sequence helpers                                                *)

Range(s) == {s[i] : i \in 1..Len(s)}

\* parts.join(' ')
RECURSIVE JoinSp(_)
JoinSp(parts) ==
  IF parts = <<>> THEN <<>>
  ELSE IF Len(parts) = 1 THEN parts[1]
  ELSE parts[1] \o <<" ">> \o JoinSp(Tail(parts))

\* String.prototype.trim on a symbol sequence
RECURSIVE TrimLeft(_)
TrimLeft(s) == IF s # <<>> /\ Head(s) = " " THEN TrimLeft(Tail(s)) ELSE s

RECURSIVE TrimRight(_)
TrimRight(s) ==
  IF s # <<>> /\ s[Len(s)] = " " THEN TrimRight(SubSeq(s, 1, Len(s) - 1)) ELSE s

Trim(s) == TrimRight(TrimLeft(s))

\* Index of the last symbol of the maximal run of non-space symbols that
\* starts at i (i itself is a non-space symbol).
RECURSIVE RunEnd(_, _)
RunEnd(s, i) == IF i < Len(s) /\ s[i + 1] # " " THEN RunEnd(s, i + 1) ELSE i

\* remaining.split(/\s+/)[0] on a trimmed string: the first token.
FirstToken(s) == IF s = <<>> THEN <<>> ELSE SubSeq(s, 1, RunEnd(s, 1))

\* s.startsWith(p)
StartsWith(s, p) == Len(s) >= Len(p) /\ SubSeq(s, 1, Len(p)) = p

\* haystack.includes(needle) for strings
Includes(s, p) ==
  \E i \in 1..(Len(s) - Len(p) + 1) : SubSeq(s, i, i + Len(p) - 1) = p

\* toLowerCase of one symbol: an upper-case letter becomes its lower-case
\* letter, every other symbol of the alphabet is its own lower case.
LowerSym(c) ==
  LET lower == << <<"A","a">>, <<"B","b">>, <<"C","c">>, <<"D","d">>, <<"E","e">>,
                  <<"F","f">>, <<"G","g">>, <<"H","h">>, <<"I","i">>, <<"J","j">>,
                  <<"K","k">>, <<"L","l">>, <<"M","m">>, <<"N","n">>, <<"O","o">>,
                  <<"P","p">>, <<"Q","q">>, <<"R","r">>, <<"S","s">>, <<"T","t">>,
                  <<"U","u">>, <<"V","v">>, <<"W","w">>, <<"X","x">>, <<"Y","y">>,
                  <<"Z","z">> >>
  IN  IF c \in Letters THEN lower[CHOOSE i \in 1..26 : lower[i][1] = c][2] ELSE c

ToLower(s) == [i \in 1..Len(s) |-> LowerSym(s[i])]

-----------------------------------------------------------------------------
(* Tag and metadata extraction (the regular expressions of the parser and  *)
(* of the new-task / edit-task handlers)                                   *)

\* text.match(/<mark>\S+/g).map(m => m.substring(1)), scanning from i.
RECURSIVE TagMatchesFrom(_, _, _)
TagMatchesFrom(s, mark, i) ==
  IF i > Len(s) THEN <<>>
  ELSE IF s[i] = mark /\ i < Len(s) /\ s[i + 1] # " "
       THEN LET j == RunEnd(s, i)
            IN  <<SubSeq(s, i + 1, j)>> \o TagMatchesFrom(s, mark, j + 1)
       ELSE TagMatchesFrom(s, mark, i + 1)

extractContexts(text) == TagMatchesFrom(text, "@", 1)

extractProjects(text) == TagMatchesFrom(text, "+", 1)

\* The non-space runs of s, in order, as symbol sequences.
RECURSIVE RunsFrom(_, _)
RunsFrom(s, i) ==
  IF i > Len(s) THEN <<>>
  ELSE IF s[i] = " " THEN RunsFrom(s, i + 1)
  ELSE LET j == RunEnd(s, i) IN <<SubSeq(s, i, j)>> \o RunsFrom(s, j + 1)

\* text.match(/(\S+):(\S+)/g): the greedy groups make a match the whole
\* non-space run, and a run matches iff a colon stands strictly inside it.
metadataMatches(text) ==
  SelectSeq(RunsFrom(text, 1),
            LAMBDA r : \E q \in 2..(Len(r) - 1) : r[q] = ":")

\* match.split(':'): the pieces between colons.
RECURSIVE SplitColon(_)
SplitColon(r) ==
  IF \A i \in 1..Len(r) : r[i] # ":" THEN <<r>>
  ELSE LET q == CHOOSE i \in 1..Len(r) : r[i] = ":" /\ \A j \in 1..(i - 1) : r[j] # ":"
       IN  <<SubSeq(r, 1, q - 1)>> \o SplitColon(SubSeq(r, q + 1, Len(r)))

\* metadata[key] = val on an insertion-ordered object
metaSet(md, key, val) ==
  IF \E i \in 1..Len(md) : md[i][1] = key
  THEN [i \in 1..Len(md) |-> IF md[i][1] = key THEN <<key, val>> ELSE md[i]]
  ELSE Append(md, <<key, val>>)

metaHas(md, key) == \E i \in 1..Len(md) : md[i][1] = key

metaGet(md, key) == (CHOOSE i \in 1..Len(md) : md[i][1] = key)

RECURSIVE metaFold(_, _)
metaFold(ms, md) ==
  IF ms = <<>> THEN md
  ELSE LET parts == SplitColon(Head(ms))
           key   == parts[1]
           val   == parts[2]
           keep  == key # <<>> /\ val # <<>> /\ key[1] # "@" /\ key[1] # "+"
       IN  metaFold(Tail(ms), IF keep THEN metaSet(md, key, val) ELSE md)

\* for (const match of metadataMatches) { const [key, val] = match.split(':'); ... }
extractMetadata(text) == metaFold(metadataMatches(text), <<>>)

-----------------------------------------------------------------------------
(* Parser and serializer (parser.ts)                                       *)

IsDateToken(tok) == Len(tok) = 1 /\ tok[1] \in DateSyms

\* PRIORITY_REGEX = /^\([A-Z0-9]\)$/
IsPriorityToken(tok) ==
  Len(tok) = 3 /\ tok[1] = "(" /\ tok[3] = ")" /\ tok[2] \in (Letters \cup Digits)

\* remaining.substring(firstToken.length).trim()
DropToken(s, tok) == Trim(SubSeq(s, Len(tok) + 1, Len(s)))

mkTask(id, completed, priority, completionDate, creationDate, text) ==
  [id |-> id, completed |-> completed, priority |-> priority,
   completionDate |-> completionDate, creationDate |-> creationDate,
   text |-> text,
   contexts |-> extractContexts(text),
   projects |-> extractProjects(text),
   metadata |-> extractMetadata(text)]

\* parseLine(line, id) for a non-blank line
parseLine(line, id) ==
  LET r0   == Trim(line)
      done == StartsWith(r0, <<"x", " ">>)
      r1   == IF done THEN Trim(SubSeq(r0, 3, Len(r0))) ELSE r0
      t1   == FirstToken(r1)
      hasCD == done /\ IsDateToken(t1)
      compD == IF hasCD THEN t1[1] ELSE NULL
      r2   == IF hasCD THEN DropToken(r1, t1) ELSE r1
      t2   == FirstToken(r2)
      hasP == (~done \/ hasCD) /\ IsPriorityToken(t2)
      prio == IF hasP THEN t2[2] ELSE NULL
      r3   == IF hasP THEN DropToken(r2, t2) ELSE r2
      t3   == FirstToken(r3)
      hasD == IsDateToken(t3)
      creaD == IF hasD THEN t3[1] ELSE NULL
      r4   == IF hasD THEN DropToken(r3, t3) ELSE r3
  IN  mkTask(id, done, prio, compD, creaD, r4)

\* parseTodoFile: content.split('\n'), line k (1-based) parsed with id k,
\* blank lines dropped.  A file is the sequence of its newline-terminated
\* lines; split('\n') yields one more, empty, element after the last newline.
RECURSIVE parseLinesFrom(_, _)
parseLinesFrom(lines, k) ==
  IF k > Len(lines) THEN <<>>
  ELSE IF Trim(lines[k]) = <<>> THEN parseLinesFrom(lines, k + 1)
  ELSE <<parseLine(lines[k], k)>> \o parseLinesFrom(lines, k + 1)

parseTodoFile(content) == parseLinesFrom(content, 1)

\* A serializer that writes the priority in front of the completion marker
serializeTask_priorityFirst(t) ==
  JoinSp(  (IF t.priority # NULL THEN <<<<"(", t.priority, ")">>>> ELSE <<>>)
        \o (IF t.completed
            THEN <<<<"x">>>> \o (IF t.completionDate # NULL
                                 THEN <<<<t.completionDate>>>> ELSE <<>>)
            ELSE <<>>)
        \o (IF t.creationDate # NULL THEN <<<<t.creationDate>>>> ELSE <<>>)
        \o <<t.text>>)

\* serializeTask: x, completion date, (priority), creation date, text
serializeTask(t) ==
  JoinSp(  (IF t.completed
            THEN <<<<"x">>>> \o (IF t.completionDate # NULL
                                 THEN <<<<t.completionDate>>>> ELSE <<>>)
            ELSE <<>>)
        \o (IF t.priority # NULL THEN <<<<"(", t.priority, ")">>>> ELSE <<>>)
        \o (IF t.creationDate # NULL THEN <<<<t.creationDate>>>> ELSE <<>>)
        \o <<t.text>>)

\* tasks.map(serializeTask).join('\n') + '\n', as the sequence of lines
serializeTodoFile(ts) ==
  IF ts = <<>> THEN << <<>> >> ELSE [i \in 1..Len(ts) |-> serializeTask(ts[i])]

-----------------------------------------------------------------------------
(* Filter and sort engine (updateFilteredTasks, identical in both engines) *)

\* Collation weight of a symbol for localeCompare: punctuation before
\* digits before letters, letters alphabetically, an atom at the place of
\* the word it stands for (due, home, kitchen, visit, write).
letterIndex(c) ==
  CASE c = "A" -> 0  [] c = "B" -> 1  [] c = "C" -> 2  [] c = "D" -> 3
    [] c = "E" -> 4  [] c = "F" -> 5  [] c = "G" -> 6  [] c = "H" -> 7
    [] c = "I" -> 8  [] c = "J" -> 9  [] c = "K" -> 10 [] c = "L" -> 11
    [] c = "M" -> 12 [] c = "N" -> 13 [] c = "O" -> 14 [] c = "P" -> 15
    [] c = "Q" -> 16 [] c = "R" -> 17 [] c = "S" -> 18 [] c = "T" -> 19
    [] c = "U" -> 20 [] c = "V" -> 21 [] c = "W" -> 22 [] c = "X" -> 23
    [] c = "Y" -> 24 [] OTHER -> 25

digitValue(c) ==
  CASE c = "0" -> 0 [] c = "1" -> 1 [] c = "2" -> 2 [] c = "3" -> 3
    [] c = "4" -> 4 [] c = "5" -> 5 [] c = "6" -> 6 [] c = "7" -> 7
    [] c = "8" -> 8 [] OTHER -> 9

collate(c) ==
  CASE c = " " -> 0 [] c = "(" -> 1 [] c = ")" -> 2 [] c = "@" -> 3
    [] c = ":" -> 4 [] c = "+" -> 5
    [] c \in Digits -> 100 + 10 * digitValue(c)
    [] c \in DateSyms -> 120 + dayOf(c)
    [] c \in Letters -> 200 + 10 * letterIndex(c)
    [] c = "due" -> 235 [] c = "h" -> 275 [] c = "k" -> 305
    [] c = "v" -> 415 [] c = "w" -> 425 [] c = "x" -> 429
    [] OTHER -> 500

\* a.localeCompare(b) on symbol sequences: -1, 0 or 1
RECURSIVE localeCompare(_, _)
localeCompare(a, b) ==
  IF a = <<>> /\ b = <<>> THEN 0
  ELSE IF a = <<>> THEN -1
  ELSE IF b = <<>> THEN 1
  ELSE IF collate(Head(a)) < collate(Head(b)) THEN -1
  ELSE IF collate(Head(a)) > collate(Head(b)) THEN 1
  ELSE localeCompare(Tail(a), Tail(b))

\* UTF-16 order of a symbol's first character, for the < of two strings
codeUnit(c) ==
  CASE c = " " -> 32 [] c = "(" -> 40 [] c = ")" -> 41 [] c = "+" -> 43
    [] c \in Digits -> 48 + digitValue(c)
    [] c \in DateSyms -> 50
    [] c = ":" -> 58 [] c = "@" -> 64
    [] c \in Letters -> 65 + letterIndex(c)
    [] c = "due" -> 100 [] c = "h" -> 104 [] c = "k" -> 107
    [] c = "v" -> 118 [] c = "w" -> 119 [] c = "x" -> 120
    [] OTHER -> 200

\* a < b on strings (code-unit order); a date atom starts with the digit 2
\* and the date atoms differ only in their last characters.
RECURSIVE strLess(_, _)
strLess(a, b) ==
  IF b = <<>> THEN FALSE
  ELSE IF a = <<>> THEN TRUE
  ELSE IF Head(a) = Head(b) THEN strLess(Tail(a), Tail(b))
  ELSE IF Head(a) \in DateSyms /\ Head(b) \in DateSyms THEN dayOf(Head(a)) < dayOf(Head(b))
  ELSE IF Head(a) = "2" /\ Head(b) \in DateSyms THEN TRUE
  ELSE IF Head(b) = "2" /\ Head(a) \in DateSyms THEN FALSE
  ELSE codeUnit(Head(a)) < codeUnit(Head(b))

DueKey == <<"due">>

\* task.metadata.due (undefined when the key is absent)
dueOf(t) == IF metaHas(t.metadata, DueKey) THEN t.metadata[metaGet(t.metadata, DueKey)][2] ELSE <<>>

isOverdue(t, day) ==
  /\ dueOf(t) # <<>>
  /\ strLess(dueOf(t), <<isoDate(day)>>)
  /\ ~t.completed

isDueToday(t, day) ==
  /\ dueOf(t) # <<>>
  /\ dueOf(t) = <<isoDate(day)>>
  /\ ~t.completed

isCompletedToday(t, day) ==
  /\ t.completed
  /\ t.completionDate # NULL
  /\ t.completionDate = isoDate(day)

NoFilter == [type |-> "none", value |-> <<>>]

\* A filter that hides completed tasks whether or not a filter is active
passesFilter_alwaysHide(t, af, showC, search, day) ==
  /\ af # NoFilter =>
          /\ ~(af.type = "priority" /\ (IF t.priority = NULL THEN <<>> ELSE <<t.priority>>) # af.value)
          /\ ~(af.type = "project" /\ af.value \notin Range(t.projects))
          /\ ~(af.type = "context" /\ af.value \notin Range(t.contexts))
          /\ ~(af.type = "dueOverdue" /\ ~isOverdue(t, day) /\ ~isDueToday(t, day))
          /\ ~(af.type = "doneToday" /\ ~isCompletedToday(t, day))
          /\ ~(af.type = "active" /\ t.completed)
  /\ ~(~showC /\ t.completed)
  /\ IF search # <<>>
     THEN LET s == ToLower(search)
          IN  \/ Includes(ToLower(t.text), s)
              \/ \E i \in 1..Len(t.contexts) : Includes(ToLower(t.contexts[i]), s)
              \/ \E i \in 1..Len(t.projects) : Includes(ToLower(t.projects[i]), s)
     ELSE TRUE

\* The predicate of tasks.filter(...) in updateFilteredTasks
passesFilter(t, af, showC, search, day) ==
  /\ IF af # NoFilter
     THEN /\ ~(af.type = "priority" /\ (IF t.priority = NULL THEN <<>> ELSE <<t.priority>>) # af.value)
          /\ ~(af.type = "project" /\ af.value \notin Range(t.projects))
          /\ ~(af.type = "context" /\ af.value \notin Range(t.contexts))
          /\ ~(af.type = "dueOverdue" /\ ~isOverdue(t, day) /\ ~isDueToday(t, day))
          /\ ~(af.type = "doneToday" /\ ~isCompletedToday(t, day))
          /\ ~(af.type = "active" /\ t.completed)
     ELSE ~(~showC /\ t.completed)
  /\ IF search # <<>>
     THEN LET s == ToLower(search)
          IN  \/ Includes(ToLower(t.text), s)
              \/ \E i \in 1..Len(t.contexts) : Includes(ToLower(t.contexts[i]), s)
              \/ \E i \in 1..Len(t.projects) : Includes(ToLower(t.projects[i]), s)
     ELSE TRUE

firstOrEmpty(tags) == IF tags = <<>> THEN <<>> ELSE tags[1]

sign(n) == IF n < 0 THEN -1 ELSE IF n > 0 THEN 1 ELSE 0

\* The comparator handed to Array.prototype.sort
compareTasks(a, b, mode) ==
  IF a.completed # b.completed THEN (IF a.completed THEN 1 ELSE -1)
  ELSE IF mode = "priority" /\ a.priority # b.priority
       THEN (IF a.priority = NULL THEN 1
             ELSE IF b.priority = NULL THEN -1
             ELSE localeCompare(<<a.priority>>, <<b.priority>>))
  ELSE IF mode = "date" /\ a.creationDate # b.creationDate
       THEN (IF a.creationDate = NULL THEN 1
             ELSE IF b.creationDate = NULL THEN -1
             ELSE localeCompare(<<a.creationDate>>, <<b.creationDate>>))
  ELSE IF mode = "project" /\ firstOrEmpty(a.projects) # firstOrEmpty(b.projects)
       THEN localeCompare(firstOrEmpty(a.projects), firstOrEmpty(b.projects))
  ELSE IF mode = "context" /\ firstOrEmpty(a.contexts) # firstOrEmpty(b.contexts)
       THEN localeCompare(firstOrEmpty(a.contexts), firstOrEmpty(b.contexts))
  ELSE sign(a.id - b.id)

\* Array.prototype.sort is stable: insertion after the last element that
\* does not compare greater.
RECURSIVE insertSorted(_, _, _)
insertSorted(sorted, t, mode) ==
  IF sorted = <<>> THEN <<t>>
  ELSE IF compareTasks(sorted[Len(sorted)], t, mode) <= 0 THEN Append(sorted, t)
  ELSE Append(insertSorted(SubSeq(sorted, 1, Len(sorted) - 1), t, mode), sorted[Len(sorted)])

RECURSIVE sortTasks(_, _)
sortTasks(ts, mode) ==
  IF ts = <<>> THEN <<>>
  ELSE insertSorted(sortTasks(SubSeq(ts, 1, Len(ts) - 1), mode), ts[Len(ts)], mode)

\* updateFilteredTasks: the visible list of a task collection
computeFiltered(ts, af, showC, search, mode, day) ==
  sortTasks(SelectSeq(ts, LAMBDA t : passesFilter(t, af, showC, search, day)), mode)

-----------------------------------------------------------------------------
(* Bounds of the model and constants of the program                        *)

\* Events (key presses that act, midnights) in one behaviour of Spec
MaxSteps == 3

\* Key presses in one behaviour of SpecPanels
PanelSteps == 7

\* Key presses in one behaviour of SpecKeys
KeySteps == 4

\* Key presses in one behaviour of SpecElements
ElementSteps == 6

\* Key presses in one behaviour of SpecFaults
FaultSteps == 3

\* Lines of a file the parser functions are applied to
MaxLines == 2

\* Events in one behaviour of SpecHistory
DeepSteps == 104

\* Handlers that may be suspended on a file operation at the same time
MaxInFlight == 2

\* The session starts on day FirstDay and may run into day LastDay
FirstDay == 2

LastDay == 3

\* saveToHistory / saveHistory keep at most this many snapshots
HistoryLimit == 50

-----------------------------------------------------------------------------
(* State                                                                   *)

VARIABLES
  impl,                \* "legacy" | "opentui": the engine that is running
  filePathSet,         \* the -f <path> option was given
  today,               \* the day new Date() reports
  exited,              \* process.exit was called
  terminal,            \* the terminal: raw input mode on, cursor hidden
  tasks,               \* state.tasks / store.tasks
  filteredTasks,       \* state.filteredTasks / store.filteredTasks
  viewLive,            \* ids of the visible entries that are the same objects as in tasks
  history,             \* the undo stack, oldest first
  aliased,             \* <<position, id>> of the snapshot entries that are objects of tasks
  file,                \* the backing file, as its lines
  inflight,            \* suspended handlers, each waiting for a file operation
  currentTaskIndex,    \* 0-based cursor into filteredTasks
  currentElementIndex, \* 0-based element cursor (legacy)
  focusedPanel,
  panelCursorIndex,
  projectsCursorIndex,
  contextsCursorIndex,
  showCompleted,
  sortMode,
  searchFilter,
  activeFilter,
  priorityMode,        \* config.priorityMode / store.priorityMode
  prompt,              \* the open TextEntry (command bar) and what its opener captured
  showFormatMismatchDialog,
  yankedTask,
  deleted,             \* ids removed by delete task / purge completed in this session
  budget,              \* events the behaviour may still take
  last                 \* the last key event handled (bookkeeping for the properties)

vars ==
  <<impl, filePathSet, today, exited, terminal, tasks, filteredTasks, viewLive, history, aliased, file,
    inflight, currentTaskIndex, currentElementIndex, focusedPanel, panelCursorIndex,
    projectsCursorIndex, contextsCursorIndex, showCompleted, sortMode, searchFilter,
    activeFilter, priorityMode, prompt, showFormatMismatchDialog, yankedTask, deleted,
    budget, last>>

envVars == <<impl, filePathSet, today, exited, terminal>>

\* The terminal while the engine runs: stdin.setRawMode(true), cursor hidden
Interactive == [raw |-> TRUE, cursorHidden |-> TRUE]

\* The terminal after cleanup(): stdin.setRawMode(false), cursor shown
Restored == [raw |-> FALSE, cursorHidden |-> FALSE]

cursorVars == <<currentTaskIndex, currentElementIndex>>

panelVars == <<focusedPanel, panelCursorIndex, projectsCursorIndex, contextsCursorIndex>>

filterVars == <<showCompleted, sortMode, searchFilter, activeFilter>>

dataVars == <<tasks, filteredTasks, viewLive, history, aliased>>

miscVars == <<priorityMode, showFormatMismatchDialog, yankedTask, deleted>>

\* let debounceTimer = null
NoTimer == <<>>

\* setTimeout(() => { onInputChange(value); ... }, 150): a pending timer
\* holding the text typed so far
armedTimer(value) == <<"armed", value>>

\* A timer that was pending when clearTimeout reached it
ClearedTimer == <<"cleared">>

IsArmed(t) == t # NoTimer /\ t[1] = "armed"

clearedTimer_left(t) == t

\* if (debounceTimer) clearTimeout(debounceTimer)
clearedTimer(t) == IF IsArmed(t) THEN ClearedTimer ELSE t

NoPrompt ==
  [kind |-> "none", taskId |-> 0, taskText |-> <<>>, origFilter |-> <<>>, origIndex |-> 0,
   timer |-> NoTimer]

mkPrompt(kind, taskId, taskText, origFilter, origIndex) ==
  [kind |-> kind, taskId |-> taskId, taskText |-> taskText,
   origFilter |-> origFilter, origIndex |-> origIndex, timer |-> NoTimer]

\* The last key event: what it did (op), to which task (id), the collection
\* before it (pre), the day it was handled, op / id of the event before, and
\* the key itself where a property names it.
mkLast(op, id, pre, day, was, wasId) ==
  [op |-> op, id |-> id, pre |-> pre, day |-> day, was |-> was, wasId |-> wasId, key |-> ""]

withKey(l, key) == [l EXCEPT !.key = key]

\* The key that opens the entry of a kind, where a property names it
keyOfEntry(kind) ==
  CASE kind = "addProject" -> "p"
    [] kind = "addContext" -> "c"
    [] kind = "addDueDate" -> "d"
    [] OTHER -> ""

UiKey == mkLast("ui", 0, <<>>, 0, "ui", 0)

\* The record of a Normal-mode key that is named for the properties
Pressed(key) == mkLast(key, 0, <<>>, 0, "ui", 0)

\* The record of an Escape that closed an entry
Cancelled == mkLast("cancel", 0, <<>>, 0, "ui", 0)

\* The files a session may start from.
InitFiles ==
  { \* no file, or an empty one
    <<>>,
    \* (A) D1 w +h / x D1 (A) D1 v @k / (B) w due:D2
    << <<"(", "A", ")", " ", "D1", " ", "w", " ", "+", "h">>,
       <<"x", " ", "D1", " ", "(", "A", ")", " ", "D1", " ", "v", " ", "@", "k">>,
       <<"(", "B", ")", " ", "w", " ", "due", ":", "D2">> >>,
    \* a blank line / x v
    << <<>>,
       <<"x", " ", "v">> >> }

\* The one-task file of SpecHistory
HistoryFile == << <<"w">> >>

\* The file of SpecKeys: w / v, no priority of either format
KeysFile == << <<"w">>, <<"v">> >>

\* The file of SpecPanels and SpecFaults: (A) w +h @k / v +k @h
PanelFile ==
  << <<"(", "A", ")", " ", "w", " ", "+", "h", " ", "@", "k">>,
     <<"v", " ", "+", "k", " ", "@", "h">> >>

\* The file of SpecElements: (A) w +h @k / v, a task of five elements and a
\* task of three
ElementsFile ==
  << <<"(", "A", ")", " ", "w", " ", "+", "h", " ", "@", "k">>,
     <<"v">> >>

\* detectPriorityFormat
detectPriorityFormat(ts) ==
  LET hasLetter == \E i \in 1..Len(ts) : ts[i].priority \in Letters
      hasNumber == \E i \in 1..Len(ts) : ts[i].priority \in Digits
  IN  IF hasLetter /\ hasNumber THEN "mixed"
      ELSE IF hasLetter THEN "letter"
      ELSE IF hasNumber THEN "number"
      ELSE "none"

\* keyboardTUI: the configured priority mode follows a file that uses only
\* the other format.
legacyStartMode(cfgMode, ts) ==
  LET f == detectPriorityFormat(ts)
  IN  IF f = "number" /\ cfgMode = "letter" THEN "number"
      ELSE IF f = "letter" /\ cfgMode = "number" THEN "letter"
      ELSE cfgMode

viewIds(v) == {v[i].id : i \in 1..Len(v)}

InitWith(engine, pathSet, content, cfgMode, steps) ==
  LET ts == parseTodoFile(content)
      v  == computeFiltered(ts, NoFilter, FALSE, <<>>, "priority", FirstDay)
  IN  /\ impl = engine
      /\ filePathSet = pathSet
      /\ today = FirstDay
      /\ exited = FALSE
      /\ terminal = Interactive
      /\ tasks = ts
      /\ filteredTasks = v
      /\ viewLive = viewIds(v)
      /\ history = <<>>
      /\ aliased = {}
      /\ file = content
      /\ inflight = <<>>
      /\ currentTaskIndex = 0
      /\ currentElementIndex = 0
      /\ focusedPanel = "tasks"
      /\ panelCursorIndex = 0
      /\ projectsCursorIndex = 0
      /\ contextsCursorIndex = 0
      /\ showCompleted = FALSE
      /\ sortMode = "priority"
      /\ searchFilter = <<>>
      /\ activeFilter = NoFilter
      /\ priorityMode = IF engine = "legacy" THEN legacyStartMode(cfgMode, ts) ELSE cfgMode
      /\ prompt = NoPrompt
      /\ showFormatMismatchDialog = FALSE
      /\ yankedTask = <<>>
      /\ deleted = {}
      /\ budget = steps
      /\ last = UiKey

Init ==
  \E content \in InitFiles :
    \/ \E cfgMode \in {"letter", "number"} : InitWith("legacy", TRUE, content, cfgMode, MaxSteps)
    \/ \E pathSet \in BOOLEAN : InitWith("opentui", pathSet, content, "letter", MaxSteps)

InitPanels ==
  \E engine \in {"legacy", "opentui"} : InitWith(engine, TRUE, PanelFile, "letter", PanelSteps)

\* Both engines in both priority modes (the store's mode is set by
\* setPriorityMode)
InitKeys ==
  \E engine \in {"legacy", "opentui"}, cfgMode \in {"letter", "number"} :
    InitWith(engine, TRUE, KeysFile, cfgMode, KeySteps)

InitElements == InitWith("legacy", TRUE, ElementsFile, "letter", ElementSteps)

InitFaults ==
  \E engine \in {"legacy", "opentui"} : InitWith(engine, TRUE, PanelFile, "letter", FaultSteps)

InitHistory ==
  \E engine \in {"legacy", "opentui"} : InitWith(engine, TRUE, HistoryFile, "letter", DeepSteps)

-----------------------------------------------------------------------------
(* Pieces shared by the handlers                                           *)

\* A history that drops the newest snapshot on overflow
pushHistory_dropNewest(h, ts) ==
  LET n == Append(h, ts) IN IF Len(n) > HistoryLimit THEN SubSeq(n, 1, HistoryLimit) ELSE n

\* saveToHistory (store) and saveHistory (legacy): push a deep copy, drop
\* the oldest beyond the limit.
pushHistory(h, ts) ==
  LET n == Append(h, ts) IN IF Len(n) > HistoryLimit THEN Tail(n) ELSE n

\* Undo that restores the oldest snapshot instead of the newest
undoTarget_oldest(h) == h[1]

\* A copy that holds the objects of the collection it copies
copyShares_sameObjects(ts) == viewIds(ts)

\* JSON.parse(JSON.stringify(state.tasks)): the ids of the entries of the
\* copy that are objects of the collection copied; the copy is deep, none is
copyShares(ts) == {}

\* aliased after a copy of ts was pushed onto h (history.shift() moves every
\* snapshot one position down)
pushAliased(al, h, ts) ==
  LET kept == IF Len(h) >= HistoryLimit
              THEN {<<p[1] - 1, p[2]>> : p \in {q \in al : q[1] > 1}}
              ELSE al
  IN  kept \cup {<<Len(pushHistory(h, ts)), id>> : id \in copyShares(ts)}

\* The history once the collection is ts: an assignment to a field of an
\* object of the collection shows in every snapshot that holds that object
writtenThrough(h, al, ts) ==
  IF al = {} THEN h
  ELSE [j \in 1..Len(h) |->
          [k \in 1..Len(h[j]) |->
             IF <<j, h[j][k].id>> \in al /\ h[j][k].id \in viewIds(ts)
             THEN ts[CHOOSE i \in 1..Len(ts) : ts[i].id = h[j][k].id]
             ELSE h[j][k]]]

\* aliased once the collection went from old to ts: an object that left the
\* collection (filter), or was replaced by a changed copy ({...t}) unless
\* the handler assigns in place, is no longer an object of the collection
aliasedAfter(al, old, ts, inPlace) ==
  {p \in al : \E i \in 1..Len(ts) :
                 /\ ts[i].id = p[2]
                 /\ inPlace \/ \E k \in 1..Len(old) : old[k] = ts[i]}

\* aliased after undo installed the snapshot at the top of h and left h2:
\* the objects of the collection are those of that snapshot
undoAliased(h, h2) ==
  {<<j, id>> : j \in {Len(h)} \cap (1..Len(h2)), id \in viewIds(h[Len(h)])}

\* Undo that skips the newest snapshot when there is an older one
undoTarget_skipNewest(h) == h[IF Len(h) > 1 THEN Len(h) - 1 ELSE 1]

\* history.pop() / history[history.length - 1]: the snapshot undo restores
undoTarget(h) == h[Len(h)]

\* filteredTasks[currentTaskIndex] is defined
HasCurrent == currentTaskIndex >= 0 /\ currentTaskIndex < Len(filteredTasks)

Current == filteredTasks[currentTaskIndex + 1]

hasId(ts, id) == \E i \in 1..Len(ts) : ts[i].id = id

\* Ids handed out by position
nextId_byLength(ts) == Len(ts) + 1

\* tasks.length > 0 ? Math.max(...tasks.map(t => t.id)) + 1 : 1
nextId(ts) ==
  IF Len(ts) > 0
  THEN (CHOOSE m \in {ts[i].id : i \in 1..Len(ts)} : \A i \in 1..Len(ts) : ts[i].id <= m) + 1
  ELSE 1

\* filteredTasks.findIndex(t => t.id === id), -1 when absent
findIndex(v, id) ==
  IF hasId(v, id)
  THEN (CHOOSE i \in 1..Len(v) : v[i].id = id /\ \A j \in 1..(i - 1) : v[j].id # id) - 1
  ELSE -1

max0(n) == IF n < 0 THEN 0 ELSE n

min2(a, b) == IF a < b THEN a ELSE b

\* The view recomputed from a collection under the current filters
viewOf(ts) == computeFiltered(ts, activeFilter, showCompleted, searchFilter, sortMode, today)

\* A suspended handler: the file operation it waits for and what it does after
mkFlight(op, content, cont, id) == [op |-> op, content |-> content, cont |-> cont, id |-> id]

CanSuspend == Len(inflight) < MaxInFlight

removeAt(s, i) == SubSeq(s, 1, i - 1) \o SubSeq(s, i + 1, Len(s))

\* The task objects a handler can hold: those of the collection and those of
\* the visible list
Known == Range(tasks) \cup Range(filteredTasks)

\* taskInList = tasks.find(t => t.id === id); the mutation f applied to it
mapFirst(ts, id, f) ==
  [i \in 1..Len(ts) |->
     IF ts[i].id = id /\ \A j \in 1..(i - 1) : ts[j].id # id THEN f[ts[i]] ELSE ts[i]]

\* The same mutation seen through the visible list: an entry changes iff
\* it is the object that was mutated.
mapLive(v, id, f) ==
  [i \in 1..Len(v) |-> IF v[i].id = id /\ id \in viewLive /\ hasId(tasks, id) THEN f[v[i]] ELSE v[i]]

\* The record of a key event that acted
acted(op, id) == mkLast(op, id, tasks, today, last.op, last.id)

-----------------------------------------------------------------------------
(* The mutations of one task                                               *)

\* A toggle that can only complete
toggled_onlyOn(t, day) ==
  [t EXCEPT !.completed = TRUE, !.completionDate = isoDate(day)]

\* A toggle that keeps the completion date when it reopens a task
toggled_keepDate(t, day) ==
  [t EXCEPT !.completed = ~t.completed,
            !.completionDate = IF ~t.completed THEN isoDate(day) ELSE t.completionDate]

\* A toggle that drops the priority of the task it completes
toggled_dropPriority(t, day) ==
  [t EXCEPT !.completed = ~t.completed,
            !.completionDate = IF ~t.completed THEN isoDate(day) ELSE NULL,
            !.priority = IF ~t.completed THEN NULL ELSE t.priority]

\* toggleCompletion / toggleTaskCompletion
toggled(t, day) ==
  [t EXCEPT !.completed = ~t.completed,
            !.completionDate = IF ~t.completed THEN isoDate(day) ELSE NULL]

withPriority(t, p) == [t EXCEPT !.priority = p]

pushProject(t, tag) ==
  [t EXCEPT !.projects = Append(t.projects, tag), !.text = t.text \o <<" ", "+">> \o tag]

pushContext(t, tag) ==
  [t EXCEPT !.contexts = Append(t.contexts, tag), !.text = t.text \o <<" ", "@">> \o tag]

\* text.replace(/due:\S+/, `due:${date}`): the first "due:" followed by a
\* non-space symbol, through the end of its run
replaceDue(text, date) ==
  LET hits == {i \in 1..(Len(text) - 2) :
                 text[i] = "due" /\ text[i + 1] = ":" /\ text[i + 2] # " "}
  IN  IF hits = {} THEN text
      ELSE LET i == CHOOSE h \in hits : \A g \in hits : h <= g
               j == RunEnd(text, i + 2)
           IN  SubSeq(text, 1, i - 1) \o <<"due", ":">> \o date \o SubSeq(text, j + 1, Len(text))

withDue(t, date) ==
  IF ~metaHas(t.metadata, DueKey)
  THEN [t EXCEPT !.metadata = metaSet(t.metadata, DueKey, date),
                 !.text = t.text \o <<" ", "due", ":">> \o date]
  ELSE [t EXCEPT !.metadata = metaSet(t.metadata, DueKey, date),
                 !.text = replaceDue(t.text, date)]

withText(t, text) ==
  [t EXCEPT !.text = text,
            !.contexts = extractContexts(text),
            !.projects = extractProjects(text),
            !.metadata = extractMetadata(text)]

\* /^\d{4}-\d{2}-\d{2}$/.test(value)
isDateInput(value) == Len(value) = 1 /\ value[1] \in DateSyms

\* text.match(/^\(([A-Z])\)\s+(.+)$/): the priority letter, or NULL
newTaskPriorityMatch(text) ==
  /\ Len(text) >= 5
  /\ text[1] = "(" /\ text[2] \in Letters /\ text[3] = ")" /\ text[4] = " "

newTaskPriority(text) == IF newTaskPriorityMatch(text) THEN text[2] ELSE NULL

\* group 2 of the match: what follows the blanks; when only blanks follow,
\* \s+ gives the last one back to (.+)
newTaskCleanText(text) ==
  IF ~newTaskPriorityMatch(text) THEN text
  ELSE LET rest == SubSeq(text, 4, Len(text))
       IN  IF TrimLeft(rest) = <<>> THEN <<" ">> ELSE TrimLeft(rest)

\* The Task literal built by addNewTask / the newTask command
newTask(ts, text, day) ==
  [mkTask(nextId(ts), FALSE, newTaskPriority(text), NULL, isoDate(day), newTaskCleanText(text))
     EXCEPT !.completionDate = NULL]

-----------------------------------------------------------------------------
(* Element deletion (legacy deleteElement)                                 *)

\* The selectable elements of a task row, in getTaskElementCount order
elements(t) ==
     << [kind |-> "checkbox", val |-> <<>>], [kind |-> "priority", val |-> <<>>] >>
  \o (IF t.creationDate # NULL THEN << [kind |-> "date", val |-> <<>>] >> ELSE <<>>)
  \o << [kind |-> "text", val |-> <<>>] >>
  \o [i \in 1..Len(t.projects) |-> [kind |-> "project", val |-> t.projects[i]]]
  \o [i \in 1..Len(t.contexts) |-> [kind |-> "context", val |-> t.contexts[i]]]
  \o [i \in 1..Len(t.metadata) |-> [kind |-> "metadata", val |-> t.metadata[i][1]]]

getTaskElementCount(t) == Len(elements(t))

\* \w of the regular-expression engine
isWord(c) == c \notin {" ", "+", "@", ":", "(", ")"}

\* \b between positions j and j + 1 of s
boundaryAfter(s, j) ==
  (j >= 1 /\ isWord(s[j])) # (j + 1 <= Len(s) /\ isWord(s[j + 1]))

\* s.replace(new RegExp(`<mark>${tag}\\b`, 'g'), '') for a tag made of word
\* symbols only
RECURSIVE removeTagFrom(_, _, _, _)
removeTagFrom(s, mark, tag, i) ==
  IF i > Len(s) THEN <<>>
  ELSE IF /\ s[i] = mark
          /\ i + Len(tag) <= Len(s)
          /\ SubSeq(s, i + 1, i + Len(tag)) = tag
          /\ boundaryAfter(s, i + Len(tag))
       THEN removeTagFrom(s, mark, tag, i + Len(tag) + 1)
       ELSE <<s[i]>> \o removeTagFrom(s, mark, tag, i + 1)

\* s.replace(new RegExp(`${key}:\\S+\\b`, 'g'), ''): \S+ runs to the end of
\* the run and gives symbols back until a word boundary is found
metaMatchEnds(s, key, i) ==
  IF /\ i + Len(key) + 1 <= Len(s)
     /\ SubSeq(s, i, i + Len(key) - 1) = key
     /\ s[i + Len(key)] = ":"
     /\ s[i + Len(key) + 1] # " "
  THEN {j \in (i + Len(key) + 1)..RunEnd(s, i + Len(key) + 1) : boundaryAfter(s, j)}
  ELSE {}

RECURSIVE removeMetaFrom(_, _, _)
removeMetaFrom(s, key, i) ==
  IF i > Len(s) THEN <<>>
  ELSE LET ends == metaMatchEnds(s, key, i)
       IN  IF ends # {}
           THEN removeMetaFrom(s, key, (CHOOSE j \in ends : \A g \in ends : g <= j) + 1)
           ELSE <<s[i]>> \o removeMetaFrom(s, key, i + 1)

withoutProject(t, project) ==
  [t EXCEPT !.projects = SelectSeq(t.projects, LAMBDA q : q # project),
            !.text = Trim(removeTagFrom(t.text, "+", project, 1))]

withoutContext(t, context) ==
  [t EXCEPT !.contexts = SelectSeq(t.contexts, LAMBDA q : q # context),
            !.text = Trim(removeTagFrom(t.text, "@", context, 1))]

withoutMeta(t, key) ==
  [t EXCEPT !.metadata = SelectSeq(t.metadata, LAMBDA kv : kv[1] # key),
            !.text = Trim(removeMetaFrom(t.text, key, 1))]

\* What deleteElement does to taskInList for the element el of the row
withoutElement(t, el) ==
  CASE el.kind = "priority" -> withPriority(t, NULL)
    [] el.kind = "date"     -> [t EXCEPT !.creationDate = NULL]
    [] el.kind = "project"  -> withoutProject(t, el.val)
    [] el.kind = "context"  -> withoutContext(t, el.val)
    [] el.kind = "metadata" -> withoutMeta(t, el.val)
    [] OTHER -> t

-----------------------------------------------------------------------------
(* The legacy engine: keyboardTUI                                          *)

\* The main keypress handler is attached and the process is running
LegacyKey == impl = "legacy" /\ ~exited /\ prompt.kind = "none" /\ budget > 0

\* A handler mutates tasks to ts (the visible objects to v), starts the
\* write and suspends; cont names what it does when the write is done.
LegacySave(op, id, snapshot, ts, v, live, cont) ==
  /\ CanSuspend
  /\ LET h  == IF snapshot THEN pushHistory(history, tasks) ELSE history
         al == IF snapshot THEN pushAliased(aliased, history, tasks) ELSE aliased
     IN  /\ history' = writtenThrough(h, al, ts)
         /\ aliased' = aliasedAfter(al, tasks, ts, TRUE)
  /\ tasks' = ts
  /\ filteredTasks' = v
  /\ viewLive' = live
  /\ inflight' = Append(inflight, mkFlight("write", serializeTodoFile(ts), cont, id))
  /\ last' = acted(op, id)

\* A key that changes neither the collection nor the file
UiOnly ==
  /\ last' = UiKey
  /\ UNCHANGED <<envVars, tasks, history, aliased, file, inflight, prompt, miscVars>>

\* space: toggleCompletion
LToggle ==
  /\ LegacyKey /\ HasCurrent
  /\ LET id == Current.id
         f == [t \in Known |-> toggled(t, today)]
     IN  LegacySave("toggle", id, TRUE, mapFirst(tasks, id, f),
                    mapLive(filteredTasks, id, f), viewLive, "view")
  /\ budget' = budget - 1
  /\ UNCHANGED <<envVars, file, cursorVars, panelVars, filterVars, miscVars, prompt>>

\* The priority a key stands for in the current mode, NULL when the key
\* does not reach setPriority or fails its pattern
legacyPriorityOf(ch, mode) ==
  IF mode = "letter" /\ ch \in Letters /\ ch # "G" THEN ch
  ELSE IF mode = "number" /\ ch \in Digits THEN ch
  ELSE NULL

\* shift+letter or a digit: setPriority
LSetPriority(ch) ==
  /\ LegacyKey /\ HasCurrent
  /\ legacyPriorityOf(ch, priorityMode) # NULL
  /\ LET id == Current.id
         f == [t \in Known |-> withPriority(t, ch)]
     IN  /\ CanSuspend
         /\ history' = writtenThrough(pushHistory(history, tasks),
                                      pushAliased(aliased, history, tasks),
                                      mapFirst(tasks, id, f))
         /\ aliased' = aliasedAfter(pushAliased(aliased, history, tasks), tasks,
                                    mapFirst(tasks, id, f), TRUE)
         /\ tasks' = mapFirst(tasks, id, f)
         /\ filteredTasks' = mapLive(filteredTasks, id, f)
         /\ UNCHANGED viewLive
         /\ inflight' = Append(inflight, mkFlight("write", serializeTodoFile(tasks'), "view", id))
         /\ last' = withKey(acted("setPriority", id), ch)
  /\ budget' = budget - 1
  /\ UNCHANGED <<envVars, file, cursorVars, panelVars, filterVars, miscVars, prompt>>

\* shift+letter or a digit that no branch of the handler accepts, or that
\* setPriority rejects (no selected task, symbol not of the mode): only the
\* frame is rendered again
LKeyIgnored(ch) ==
  /\ LegacyKey
  /\ ch \in (Letters \ {"G"}) \cup Digits
  /\ legacyPriorityOf(ch, priorityMode) = NULL \/ ~HasCurrent
  /\ budget' = budget - 1
  /\ last' = withKey(UiKey, ch)
  /\ UNCHANGED <<envVars, dataVars, file, inflight, cursorVars, panelVars, filterVars, miscVars,
                 prompt>>

\* A deleteElement that also clears an empty priority slot
deletableAt_emptySlot(t, index) ==
  /\ index < getTaskElementCount(t)
  /\ elements(t)[index + 1].kind \notin {"checkbox", "text"}

\* deleteElement reaches a branch that deletes: the element cursor is on a
\* priority that is set, the creation date, a tag or a metadata entry
deletableAt(t, index) ==
  /\ index < getTaskElementCount(t)
  /\ elements(t)[index + 1].kind \notin {"checkbox", "text"}
  /\ elements(t)[index + 1].kind = "priority" => t.priority # NULL

\* backspace / delete where deleteElement returns before saveHistory: no
\* selected task, or the cursor on the checkbox, the text or an empty
\* priority slot
LDeleteNothing ==
  /\ LegacyKey
  /\ ~(HasCurrent /\ deletableAt(Current, currentElementIndex))
  /\ budget' = budget - 1
  /\ last' = Pressed("delete")
  /\ UNCHANGED <<envVars, dataVars, file, inflight, cursorVars, panelVars, filterVars, miscVars,
                 prompt>>

\* backspace / delete: deleteElement
LDeleteElement ==
  /\ LegacyKey /\ HasCurrent
  /\ deletableAt(Current, currentElementIndex)
  /\ LET el == elements(Current)[currentElementIndex + 1]
         id == Current.id
         f == [t \in Known |-> withoutElement(t, el)]
     IN  /\ LegacySave("deleteElement", id, TRUE, mapFirst(tasks, id, f),
                       mapLive(filteredTasks, id, f), viewLive, "elem")
  /\ budget' = budget - 1
  /\ UNCHANGED <<envVars, file, cursorVars, panelVars, filterVars, miscVars, prompt>>

\* u: undo
LUndo ==
  /\ LegacyKey /\ history # <<>>
  /\ CanSuspend
  /\ tasks' = undoTarget(history)
  /\ history' = SubSeq(history, 1, Len(history) - 1)
  /\ aliased' = undoAliased(history, history')
  /\ viewLive' = {}
  /\ inflight' = Append(inflight, mkFlight("write", serializeTodoFile(tasks'), "view", 0))
  /\ last' = mkLast("undo", 0, last.pre, today, last.op, last.id)
  /\ budget' = budget - 1
  /\ UNCHANGED <<envVars, file, filteredTasks, cursorVars, panelVars, filterVars, miscVars, prompt>>

\* u with an empty history: if (state.history.length === 0) return
LUndoNothing ==
  /\ LegacyKey /\ history = <<>>
  /\ last' = mkLast("undoNothing", 0, tasks, today, last.op, last.id)
  /\ budget' = budget - 1
  /\ UNCHANGED <<envVars, dataVars, file, inflight, cursorVars, panelVars, filterVars, miscVars,
                 prompt>>

\* r: state.tasks = await loadTasks(...)
LReload ==
  /\ LegacyKey /\ CanSuspend
  /\ inflight' = Append(inflight, mkFlight("read", <<>>, "reload", 0))
  /\ last' = UiKey
  /\ budget' = budget - 1
  /\ UNCHANGED <<envVars, dataVars, file, cursorVars, panelVars, filterVars, miscVars, prompt>>

\* What the user may have typed when Enter is pressed in a TextEntry
TagInputs == { <<>>, <<"h">>, <<"h", " ", "k">> }

DateInputs == { <<"D3">>, <<"w">> }

TextInputs == { <<>>, <<"w">>, <<"(", "A", ")", " ", "v", " ", "+", "h">> }

ConfirmInputs == { <<"Y">>, <<"y">>, <<"v">> }

SearchInputs == { <<>>, <<"W">> }

EditInputs(text) == { text, <<"v", " ", "@", "k">> }

\* p, c, d, n/a: the prompt opens before anything is looked at
LOpenPrompt(kind) ==
  /\ LegacyKey
  /\ kind \in {"addProject", "addContext", "addDueDate", "newTask"}
  /\ prompt' = mkPrompt(kind, 0, <<>>, <<>>, 0)
  /\ budget' = budget - 1
  /\ last' = withKey(UiKey, keyOfEntry(kind))
  /\ UNCHANGED <<envVars, dataVars, file, inflight, cursorVars, panelVars, filterVars, miscVars>>

\* e / Enter: editTask keeps the selected row and prompts with its text
LOpenEdit ==
  /\ LegacyKey /\ HasCurrent
  /\ prompt' = mkPrompt("edit", Current.id, Current.text, <<>>, 0)
  /\ budget' = budget - 1
  /\ last' = UiKey
  /\ UNCHANGED <<envVars, dataVars, file, inflight, cursorVars, panelVars, filterVars, miscVars>>

\* x: deleteTask keeps the selected row and asks for confirmation
LOpenDelete ==
  /\ LegacyKey /\ HasCurrent
  /\ prompt' = mkPrompt("confirmDelete", Current.id, <<>>, <<>>, 0)
  /\ budget' = budget - 1
  /\ last' = UiKey
  /\ UNCHANGED <<envVars, dataVars, file, inflight, cursorVars, panelVars, filterVars, miscVars>>

\* z: purgeCompleted
LOpenPurge ==
  /\ LegacyKey
  /\ prompt' = mkPrompt(IF \E i \in 1..Len(tasks) : tasks[i].completed
                        THEN "confirmPurge" ELSE "purgeNone", 0, <<>>, <<>>, 0)
  /\ budget' = budget - 1
  /\ last' = UiKey
  /\ UNCHANGED <<envVars, dataVars, file, inflight, cursorVars, panelVars, filterVars, miscVars>>

\* /: searchFilter; a non-empty current filter fires the live callback at once
LOpenSearch ==
  /\ LegacyKey
  /\ prompt' = mkPrompt("search", 0, <<>>, searchFilter, currentTaskIndex)
  /\ IF searchFilter # <<>>
     THEN /\ filteredTasks' = viewOf(tasks)
          /\ viewLive' = viewIds(filteredTasks')
          /\ currentTaskIndex' = 0
     ELSE UNCHANGED <<filteredTasks, viewLive, currentTaskIndex>>
  /\ budget' = budget - 1
  /\ last' = UiKey
  /\ UNCHANGED <<envVars, tasks, history, aliased, file, inflight, currentElementIndex, panelVars,
                 filterVars, miscVars>>

\* The handler resumes from promptInput and returns without doing anything
LPromptReturn ==
  /\ prompt' = NoPrompt
  /\ last' = UiKey
  /\ UNCHANGED <<envVars, dataVars, file, inflight, cursorVars, panelVars, filterVars,
                 miscVars, budget>>

LegacyPrompt(kind) == impl = "legacy" /\ ~exited /\ prompt.kind = kind

\* Escape in any prompt but the search prompt
LPromptCancel ==
  /\ impl = "legacy" /\ ~exited
  /\ prompt.kind \notin {"none", "search"}
  /\ prompt' = NoPrompt
  /\ last' = Cancelled
  /\ UNCHANGED <<envVars, dataVars, file, inflight, cursorVars, panelVars, filterVars,
                 miscVars, budget>>

\* Enter in the prompt of addProjectTag / addContextTag / addDueDate
LSubmitTag(value) ==
  /\ \/ LegacyPrompt("addProject") /\ value \in TagInputs
     \/ LegacyPrompt("addContext") /\ value \in TagInputs
     \/ LegacyPrompt("addDueDate") /\ value \in DateInputs
  /\ IF \/ value = <<>>
        \/ prompt.kind = "addDueDate" /\ ~isDateInput(value)
        \/ ~HasCurrent
     THEN LPromptReturn
     ELSE /\ LET id == Current.id
                 f == [t \in Known |->
                        CASE prompt.kind = "addProject" ->
                               IF value \in Range(t.projects) THEN t ELSE pushProject(t, value)
                          [] prompt.kind = "addContext" ->
                               IF value \in Range(t.contexts) THEN t ELSE pushContext(t, value)
                          [] OTHER -> withDue(t, value)]
             IN  LegacySave(prompt.kind, id, TRUE, mapFirst(tasks, id, f),
                            mapLive(filteredTasks, id, f), viewLive, "view")
          /\ prompt' = NoPrompt
          /\ UNCHANGED <<envVars, file, cursorVars, panelVars, filterVars, miscVars, budget>>

\* Enter in the prompt of editTask
LSubmitEdit(value) ==
  /\ LegacyPrompt("edit")
  /\ value \in EditInputs(prompt.taskText)
  /\ IF value = prompt.taskText
     THEN LPromptReturn
     ELSE /\ LET id == prompt.taskId
                 f == [t \in Known |-> withText(t, value)]
             IN  LegacySave("edit", id, TRUE, mapFirst(tasks, id, f),
                            mapLive(filteredTasks, id, f), viewLive, "view")
          /\ prompt' = NoPrompt
          /\ UNCHANGED <<envVars, file, cursorVars, panelVars, filterVars, miscVars, budget>>

\* Enter in the prompt of addNewTask
LSubmitNew(value) ==
  /\ LegacyPrompt("newTask")
  /\ value \in TextInputs
  /\ IF value = <<>>
     THEN LPromptReturn
     ELSE /\ LET t == newTask(tasks, value, today)
             IN  LegacySave("newTask", t.id, TRUE, Append(tasks, t), filteredTasks, viewLive, "new")
          /\ prompt' = NoPrompt
          /\ UNCHANGED <<envVars, file, cursorVars, panelVars, filterVars, miscVars, budget>>

\* A confirmation that takes every answer but the empty one
confirmed_anyAnswer(value) == value # <<>>

\* confirm?.toLowerCase() === 'y'
confirmed(value) == ToLower(value) = <<"y">>

\* The answer as the key that was typed, where a property names it
answerKey(value) == IF Len(value) = 1 THEN value[1] ELSE ""

\* Enter in the confirmation of deleteTask / purgeCompleted
LSubmitConfirm(value) ==
  /\ LegacyPrompt("confirmDelete") \/ LegacyPrompt("confirmPurge") \/ LegacyPrompt("purgeNone")
  /\ value \in ConfirmInputs
  /\ IF prompt.kind = "purgeNone" \/ ~confirmed(value)
     THEN /\ prompt' = NoPrompt
          /\ last' = withKey(mkLast("refused", prompt.taskId, tasks, today, last.op, last.id),
                             answerKey(value))
          /\ UNCHANGED <<envVars, dataVars, file, inflight, cursorVars, panelVars, filterVars,
                         miscVars, budget>>
     ELSE /\ LET ts == IF prompt.kind = "confirmDelete"
                       THEN SelectSeq(tasks, LAMBDA t : t.id # prompt.taskId)
                       ELSE SelectSeq(tasks, LAMBDA t : ~t.completed)
             IN  /\ CanSuspend
                 /\ history' = writtenThrough(pushHistory(history, tasks),
                                              pushAliased(aliased, history, tasks), ts)
                 /\ aliased' = aliasedAfter(pushAliased(aliased, history, tasks), tasks, ts,
                                            TRUE)
                 /\ tasks' = ts
                 /\ UNCHANGED <<filteredTasks, viewLive>>
                 /\ inflight' = Append(inflight, mkFlight("write", serializeTodoFile(ts), "del",
                                                          prompt.taskId))
                 /\ last' = withKey(acted(IF prompt.kind = "confirmDelete" THEN "deleteTask"
                                          ELSE "purge", prompt.taskId), answerKey(value))
                 /\ deleted' = deleted \cup (viewIds(tasks) \ viewIds(ts))
          /\ prompt' = NoPrompt
          /\ UNCHANGED <<envVars, file, cursorVars, panelVars, filterVars, priorityMode,
                         showFormatMismatchDialog, yankedTask, budget>>

\* Enter or Escape in the search prompt
LCloseSearch(value, cancel) ==
  /\ LegacyPrompt("search")
  /\ value \in SearchInputs
  /\ searchFilter' = IF cancel THEN prompt.origFilter ELSE value
  /\ filteredTasks' = computeFiltered(tasks, activeFilter, showCompleted, searchFilter', sortMode, today)
  /\ viewLive' = viewIds(filteredTasks')
  /\ currentTaskIndex' = IF cancel THEN min2(prompt.origIndex, Len(filteredTasks') - 1) ELSE 0
  /\ prompt' = [NoPrompt EXCEPT !.timer = clearedTimer(prompt.timer)]
  /\ last' = IF cancel THEN Cancelled ELSE UiKey
  /\ UNCHANGED <<envVars, tasks, history, aliased, file, inflight, currentElementIndex, panelVars,
                 showCompleted, sortMode, activeFilter, miscVars, budget>>

\* Any other key in a prompt: onKeypress edits the entry (its text and cursor
\* are not part of the state here). In the search prompt, the only one with a
\* live callback, triggerInputChange replaces the pending debounce timer by
\* one holding the text typed so far.
LPromptType(value) ==
  /\ impl = "legacy" /\ ~exited /\ prompt.kind # "none" /\ budget > 0
  /\ value \in SearchInputs
  /\ prompt' = IF prompt.kind = "search"
               THEN [prompt EXCEPT !.timer = armedTimer(value)]
               ELSE prompt
  /\ budget' = budget - 1
  /\ last' = mkLast("type", 0, tasks, today, last.op, last.id)
  /\ UNCHANGED <<envVars, tasks, history, aliased, file, inflight, cursorVars, filteredTasks,
                 viewLive, panelVars, filterVars, miscVars>>

\* The debounce timer fires: the live callback of searchFilter runs with the
\* text the timer holds. A timer fires whenever it is still pending, whatever
\* has happened to the prompt that armed it.
LDebounceFire ==
  /\ impl = "legacy" /\ ~exited /\ IsArmed(prompt.timer)
  /\ searchFilter' = prompt.timer[2]
  /\ filteredTasks' = computeFiltered(tasks, activeFilter, showCompleted, searchFilter',
                                      sortMode, today)
  /\ viewLive' = viewIds(filteredTasks')
  /\ currentTaskIndex' = 0
  /\ prompt' = [prompt EXCEPT !.timer = NoTimer]
  /\ UNCHANGED <<envVars, tasks, history, aliased, file, inflight, currentElementIndex, panelVars,
                 showCompleted, sortMode, activeFilter, miscVars, budget, last>>

-----------------------------------------------------------------------------
(* Panels and filters                                                      *)

LetterSeq ==
  <<"A","B","C","D","E","F","G","H","I","J","K","L","M",
    "N","O","P","Q","R","S","T","U","V","W","X","Y","Z">>

DigitSeq == <<"0","1","2","3","4","5","6","7","8","9">>

prioritiesOf(mode) == IF mode = "letter" THEN LetterSeq ELSE DigitSeq

allProjects(ts) == UNION {Range(ts[i].projects) : i \in 1..Len(ts)}

allContexts(ts) == UNION {Range(ts[i].contexts) : i \in 1..Len(ts)}

\* Array.from(set).sort(): ascending in code-unit order
RECURSIVE sortedTags(_)
sortedTags(S) ==
  IF S = {} THEN <<>>
  ELSE LET m == CHOOSE x \in S : \A y \in S : y = x \/ strLess(x, y)
       IN  <<m>> \o sortedTags(S \ {m})

getPanelItemCount(panel) ==
  CASE panel = "tasks"      -> Len(filteredTasks)
    [] panel = "priorities" -> Len(prioritiesOf(priorityMode))
    [] panel = "stats"      -> 3
    [] panel = "projects"   -> Cardinality(allProjects(tasks))
    [] panel = "contexts"   -> Cardinality(allContexts(tasks))
    [] OTHER -> 0

StatsFilters == <<"dueOverdue", "doneToday", "active">>

\* applyPanelFilter: the filter chosen by the cursor of the focused panel,
\* the current filter when the cursor is past the list
panelFilter(panel, index) ==
  LET list == CASE panel = "priorities" -> [i \in 1..Len(prioritiesOf(priorityMode)) |->
                                              [type |-> "priority", value |-> <<prioritiesOf(priorityMode)[i]>>]]
                [] panel = "stats"      -> [i \in 1..3 |-> [type |-> StatsFilters[i], value |-> <<>>]]
                [] panel = "projects"   -> [i \in 1..Cardinality(allProjects(tasks)) |->
                                              [type |-> "project", value |-> sortedTags(allProjects(tasks))[i]]]
                [] panel = "contexts"   -> [i \in 1..Cardinality(allContexts(tasks)) |->
                                              [type |-> "context", value |-> sortedTags(allContexts(tasks))[i]]]
                [] OTHER -> <<>>
  IN  IF index < Len(list) THEN list[index + 1] ELSE activeFilter

LegacyPanels == <<"tasks", "priorities", "stats", "projects", "contexts">>

indexOf(seq, x) == IF x \in Range(seq) THEN (CHOOSE i \in 1..Len(seq) : seq[i] = x) - 1 ELSE -1

SortModes == <<"priority", "date", "project", "context">>

\* q / Escape: back to the task list, else clear the filter, else quit
LEscape ==
  /\ LegacyKey
  /\ IF focusedPanel # "tasks"
     THEN /\ focusedPanel' = "tasks" /\ panelCursorIndex' = 0
          /\ UNCHANGED <<filteredTasks, viewLive, activeFilter, currentTaskIndex, exited, terminal>>
     ELSE IF activeFilter # NoFilter
     THEN /\ activeFilter' = NoFilter
          /\ filteredTasks' = computeFiltered(tasks, NoFilter, showCompleted, searchFilter, sortMode, today)
          /\ viewLive' = viewIds(filteredTasks')
          /\ currentTaskIndex' = 0
          /\ UNCHANGED <<focusedPanel, panelCursorIndex, exited, terminal>>
     ELSE /\ terminal' = Restored
          /\ exited' = TRUE
          /\ UNCHANGED <<focusedPanel, panelCursorIndex, filteredTasks, viewLive, activeFilter,
                         currentTaskIndex>>
  /\ budget' = budget - 1
  /\ last' = Pressed("escape")
  /\ UNCHANGED <<impl, filePathSet, today, tasks, history, aliased, file, inflight, currentElementIndex,
                 projectsCursorIndex, contextsCursorIndex, showCompleted, sortMode, searchFilter,
                 miscVars, prompt>>

\* Ctrl+C / Ctrl+D in the main handler: await cleanup(); process.exit(0)
LCtrlC ==
  /\ LegacyKey
  /\ terminal' = Restored
  /\ exited' = TRUE
  /\ budget' = budget - 1
  /\ last' = Pressed("ctrl-c")
  /\ UNCHANGED <<impl, filePathSet, today, dataVars, file, inflight, cursorVars, panelVars,
                 filterVars, miscVars, prompt>>

\* Tab
LTab ==
  /\ LegacyKey
  /\ focusedPanel' = LegacyPanels[((indexOf(LegacyPanels, focusedPanel) + 1) % Len(LegacyPanels)) + 1]
  /\ panelCursorIndex' = 0
  /\ budget' = budget - 1
  /\ last' = Pressed("tab")
  /\ UNCHANGED <<envVars, tasks, history, aliased, file, inflight, prompt, miscVars>>
  /\ UNCHANGED <<filteredTasks, viewLive, cursorVars, projectsCursorIndex, contextsCursorIndex,
                 filterVars>>

\* Up / k and Down / j
LUpDown(down) ==
  /\ LegacyKey
  /\ IF focusedPanel = "tasks"
     THEN /\ IF down THEN currentTaskIndex < Len(filteredTasks) - 1 ELSE currentTaskIndex > 0
          /\ currentTaskIndex' = IF down THEN currentTaskIndex + 1 ELSE currentTaskIndex - 1
          /\ currentElementIndex' = 0
          /\ UNCHANGED panelCursorIndex
     ELSE /\ IF down THEN panelCursorIndex < getPanelItemCount(focusedPanel) - 1
                     ELSE panelCursorIndex > 0
          /\ panelCursorIndex' = IF down THEN panelCursorIndex + 1 ELSE panelCursorIndex - 1
          /\ UNCHANGED cursorVars
  /\ budget' = budget - 1
  /\ UiOnly
  /\ UNCHANGED <<filteredTasks, viewLive, focusedPanel, projectsCursorIndex, contextsCursorIndex,
                 filterVars>>

\* Left / h and Right / l
LLeftRight(right) ==
  /\ LegacyKey
  /\ focusedPanel = "tasks"
  /\ IF right
     THEN HasCurrent /\ currentElementIndex < getTaskElementCount(Current) - 1
     ELSE currentElementIndex > 0
  /\ currentElementIndex' = IF right THEN currentElementIndex + 1 ELSE currentElementIndex - 1
  /\ budget' = budget - 1
  /\ UiOnly
  /\ UNCHANGED <<filteredTasks, viewLive, currentTaskIndex, panelVars, filterVars>>

\* Enter on a side panel
LEnterPanel ==
  /\ LegacyKey
  /\ focusedPanel # "tasks"
  /\ activeFilter' = panelFilter(focusedPanel, panelCursorIndex)
  /\ filteredTasks' = computeFiltered(tasks, activeFilter', showCompleted, searchFilter, sortMode, today)
  /\ viewLive' = viewIds(filteredTasks')
  /\ currentTaskIndex' = 0
  /\ focusedPanel' = "tasks"
  /\ budget' = budget - 1
  /\ last' = Pressed("enter")
  /\ UNCHANGED <<envVars, tasks, history, aliased, file, inflight, prompt, miscVars>>
  /\ UNCHANGED <<currentElementIndex, panelCursorIndex, projectsCursorIndex, contextsCursorIndex,
                 showCompleted, sortMode, searchFilter>>

\* v
LToggleShow ==
  /\ LegacyKey
  /\ showCompleted' = ~showCompleted
  /\ filteredTasks' = computeFiltered(tasks, activeFilter, showCompleted', searchFilter, sortMode, today)
  /\ viewLive' = viewIds(filteredTasks')
  /\ currentTaskIndex' = IF currentTaskIndex >= Len(filteredTasks')
                         THEN max0(Len(filteredTasks') - 1) ELSE currentTaskIndex
  /\ budget' = budget - 1
  /\ UiOnly
  /\ UNCHANGED <<currentElementIndex, panelVars, sortMode, searchFilter, activeFilter>>

\* s: cycleSortMode
LCycleSort ==
  /\ LegacyKey
  /\ sortMode' = SortModes[((indexOf(SortModes, sortMode) + 1) % Len(SortModes)) + 1]
  /\ filteredTasks' = computeFiltered(tasks, activeFilter, showCompleted, searchFilter, sortMode', today)
  /\ viewLive' = viewIds(filteredTasks')
  /\ budget' = budget - 1
  /\ UiOnly
  /\ UNCHANGED <<cursorVars, panelVars, showCompleted, searchFilter, activeFilter>>

-----------------------------------------------------------------------------
(* Completion of file operations and the passing of time                   *)

\* A handler that does not recompute the visible list after its write
resumedView_stale(fl, ts) == filteredTasks

\* The visible list once a handler that was suspended has run to its end:
\* the legacy handlers call updateFilteredTasks after the await, the store
\* actions did so before it
resumedView(fl, ts) ==
  IF fl.cont \in {"none", "closeBar"} THEN filteredTasks
  ELSE computeFiltered(ts, activeFilter, showCompleted, searchFilter, sortMode, today)

\* The entry once the handler has run to its end: handleCommandBarSubmit
\* closes the command bar after the await
resumedPrompt(fl) == IF fl.cont = "closeBar" THEN NoPrompt ELSE prompt

\* The file operation of suspended handler i completes and the handler
\* runs to its end.  After process.exit only the file can still change.
FileOpDone(i) ==
  /\ i \in 1..Len(inflight)
  /\ LET fl == inflight[i]
         ts == IF fl.op = "read" /\ ~exited THEN parseTodoFile(file) ELSE tasks
         v  == IF exited THEN filteredTasks ELSE resumedView(fl, ts)
     IN  /\ file' = IF fl.op = "write" THEN fl.content ELSE file
         /\ inflight' = removeAt(inflight, i)
         /\ tasks' = ts
         /\ filteredTasks' = v
         /\ viewLive' = IF exited \/ fl.cont \in {"none", "closeBar"} THEN viewLive ELSE viewIds(v)
         /\ currentTaskIndex' =
              IF exited THEN currentTaskIndex
              ELSE IF fl.cont = "new" THEN findIndex(v, fl.id)
              ELSE IF fl.cont = "del" /\ currentTaskIndex >= Len(v) THEN max0(Len(v) - 1)
              ELSE currentTaskIndex
         /\ currentElementIndex' =
              IF ~exited /\ fl.cont = "elem" /\ currentElementIndex > 0
              THEN currentElementIndex - 1 ELSE currentElementIndex
         /\ prompt' = IF ~exited THEN resumedPrompt(fl) ELSE prompt
         /\ last' = IF ~exited /\ fl.cont = "reload" THEN mkLast("reload", 0, <<>>, 0, "ui", 0) ELSE last
  /\ aliased' = IF inflight[i].op = "read" /\ ~exited THEN {} ELSE aliased
  /\ UNCHANGED <<envVars, history, panelVars, filterVars, miscVars, budget>>

\* The write of suspended handler i fails: saveTasks throws, no handler
\* catches, and the rest of the suspended handler never runs.  The rejected
\* promise is handled by nobody; whether the runtime then ends the process
\* depends on the runtime (dies).  A failure counts as an event of the
\* behaviour.
FileOpFailed(i, dies) ==
  /\ ~exited /\ budget > 0
  /\ i \in 1..Len(inflight)
  /\ inflight[i].op = "write"
  /\ inflight' = removeAt(inflight, i)
  /\ exited' = dies
  /\ last' = mkLast("writeFailed", inflight[i].id, tasks, today, last.op, last.id)
  /\ budget' = budget - 1
  /\ UNCHANGED <<impl, filePathSet, today, terminal, dataVars, file, cursorVars, panelVars,
                 filterVars, miscVars, prompt>>

\* Midnight passes
Tick ==
  /\ today < LastDay /\ budget > 0
  /\ today' = today + 1
  /\ budget' = budget - 1
  /\ UNCHANGED <<impl, filePathSet, exited, terminal, dataVars, file, inflight, cursorVars, panelVars,
                 filterVars, miscVars, prompt, last>>

-----------------------------------------------------------------------------
(* The OpenTUI engine: the store useTodoStore and the hook useKeyboard     *)

\* A hook that handles Normal-mode keys while the command bar is open
StoreKey_barOpen == impl = "opentui" /\ ~exited /\ budget > 0

\* The hook handles the key: no command bar, process running
StoreKey == impl = "opentui" /\ ~exited /\ prompt.kind = "none" /\ budget > 0

\* tasks.map(t => t.id === id ? f(t) : t)
mapAll(ts, id, f) == [i \in 1..Len(ts) |-> IF ts[i].id = id THEN f[ts[i]] ELSE ts[i]]

\* A store action: snapshot, set({tasks}), updateFilteredTasks, then the
\* write, which is started only if a file path was given; nobody waits
\* for it except handleCommandBarSubmit (cont = "closeBar").
StoreSave(op, id, ts, idx, cont) ==
  /\ history' = pushHistory(history, tasks)
  /\ aliased' = aliasedAfter(pushAliased(aliased, history, tasks), tasks, ts, FALSE)
  /\ tasks' = ts
  /\ filteredTasks' = viewOf(ts)
  /\ viewLive' = viewIds(filteredTasks')
  /\ currentTaskIndex' = idx
  /\ IF filePathSet
     THEN /\ CanSuspend
          /\ inflight' = Append(inflight, mkFlight("write", serializeTodoFile(ts), cont, id))
     ELSE UNCHANGED inflight
  /\ last' = acted(op, id)

\* space: toggleTaskCompletion(filePath)
OToggle ==
  /\ StoreKey /\ focusedPanel = "tasks" /\ HasCurrent
  /\ LET id == Current.id
         f == [t \in Known |-> toggled(t, today)]
     IN  StoreSave("toggle", id, mapAll(tasks, id, f), currentTaskIndex, "none")
  /\ budget' = budget - 1
  /\ UNCHANGED <<envVars, file, currentElementIndex, panelVars, filterVars, miscVars, prompt>>

\* u: undo(filePath)
OUndo ==
  /\ StoreKey /\ history # <<>>
  /\ tasks' = undoTarget(history)
  /\ history' = SubSeq(history, 1, Len(history) - 1)
  /\ aliased' = undoAliased(history, history')
  /\ filteredTasks' = viewOf(tasks')
  /\ viewLive' = viewIds(filteredTasks')
  /\ IF filePathSet
     THEN /\ CanSuspend
          /\ inflight' = Append(inflight, mkFlight("write", serializeTodoFile(tasks'), "none", 0))
     ELSE UNCHANGED inflight
  /\ last' = mkLast("undo", 0, last.pre, today, last.op, last.id)
  /\ budget' = budget - 1
  /\ UNCHANGED <<envVars, file, cursorVars, panelVars, filterVars, miscVars, prompt>>

\* The priority a key stands for; G, K, J, V, S and U are taken by the
\* handlers in front of the priority block
storePriorityOf(ch, mode) ==
  IF mode = "letter" /\ ch \in (Letters \ {"G", "J", "K", "S", "U", "V"}) THEN ch
  ELSE IF mode = "number" /\ ch \in Digits THEN ch
  ELSE NULL

\* shift+letter or a digit on the task list: the hook mutates the task in
\* place and calls saveTasks(tasks, filePath) itself, path or no path
OSetPriority(ch) ==
  /\ StoreKey /\ focusedPanel = "tasks" /\ HasCurrent
  /\ storePriorityOf(ch, priorityMode) # NULL
  /\ hasId(tasks, Current.id)
  /\ CanSuspend
  /\ LET id == Current.id
         f == [t \in Known |-> withPriority(t, ch)]
         ts == mapFirst(tasks, id, f)
     IN  /\ history' = writtenThrough(pushHistory(history, tasks),
                                      pushAliased(aliased, history, tasks), ts)
         /\ aliased' = aliasedAfter(pushAliased(aliased, history, tasks), tasks, ts, TRUE)
         /\ tasks' = ts
         /\ filteredTasks' = viewOf(ts)
         /\ viewLive' = viewIds(filteredTasks')
         /\ inflight' = Append(inflight, mkFlight("write", serializeTodoFile(ts), "none", id))
         /\ last' = withKey(acted("setPriority", id), ch)
  /\ budget' = budget - 1
  /\ UNCHANGED <<envVars, file, cursorVars, panelVars, filterVars, miscVars, prompt>>

\* The keys the hook has no binding for
UnboundKeys == {"c"}

\* A key that runs through the hook without matching a branch: a symbol the
\* priority block does not take (wrong mode, no selected task, other panel)
\* and that has no binding of its own, or a key with no binding at all
OKeyIgnored(ch) ==
  /\ StoreKey
  /\ \/ ch \in UnboundKeys
     \/ /\ ch \in (Letters \ {"G", "J", "K", "S", "U", "V"}) \cup Digits
        /\ \/ storePriorityOf(ch, priorityMode) = NULL
           \/ focusedPanel # "tasks"
           \/ ~HasCurrent
  /\ budget' = budget - 1
  /\ last' = withKey(UiKey, ch)
  /\ UNCHANGED <<envVars, dataVars, file, inflight, cursorVars, panelVars, filterVars, miscVars,
                 prompt>>

\* u with an empty history: if (history.length === 0) return
OUndoNothing ==
  /\ StoreKey /\ history = <<>>
  /\ last' = mkLast("undoNothing", 0, tasks, today, last.op, last.id)
  /\ budget' = budget - 1
  /\ UNCHANGED <<envVars, dataVars, file, inflight, cursorVars, panelVars, filterVars, miscVars,
                 prompt>>

\* shift+u: the key is named u, the undo branch does not look at shift and
\* comes before the priority block
OShiftU ==
  /\ StoreKey /\ history # <<>>
  /\ tasks' = undoTarget(history)
  /\ history' = SubSeq(history, 1, Len(history) - 1)
  /\ aliased' = undoAliased(history, history')
  /\ filteredTasks' = viewOf(tasks')
  /\ viewLive' = viewIds(filteredTasks')
  /\ IF filePathSet
     THEN /\ CanSuspend
          /\ inflight' = Append(inflight, mkFlight("write", serializeTodoFile(tasks'), "none", 0))
     ELSE UNCHANGED inflight
  /\ last' = withKey(mkLast("undo", 0, last.pre, today, last.op, last.id), "U")
  /\ budget' = budget - 1
  /\ UNCHANGED <<envVars, file, cursorVars, panelVars, filterVars, miscVars, prompt>>

\* y: yankTask
OYank ==
  /\ StoreKey /\ focusedPanel = "tasks" /\ HasCurrent
  /\ yankedTask' = <<Current>>
  /\ budget' = budget - 1
  /\ last' = UiKey
  /\ UNCHANGED <<envVars, dataVars, file, inflight, cursorVars, panelVars, filterVars,
                 priorityMode, showFormatMismatchDialog, deleted, prompt>>

\* A paste that keeps the completion state of the yanked task
pastedTask_keepCompletion(ts, y, day) ==
  [y EXCEPT !.id = nextId(ts), !.creationDate = isoDate(day)]

\* The Task literal built by pasteTask
pastedTask(ts, y, day) ==
  [y EXCEPT !.id = nextId(ts), !.completed = FALSE, !.completionDate = NULL,
            !.creationDate = isoDate(day)]

\* p: pasteTask(filePath)
OPaste ==
  /\ StoreKey /\ focusedPanel = "tasks"
  /\ IF yankedTask = <<>>
     THEN /\ last' = mkLast("pasteNothing", 0, tasks, today, last.op, last.id)
          /\ UNCHANGED <<dataVars, inflight, currentTaskIndex, deleted>>
     ELSE LET t  == pastedTask(tasks, yankedTask[1], today)
              ts == Append(tasks, t)
              at == findIndex(viewOf(ts), t.id)
          IN  StoreSave("paste", t.id, ts, IF at >= 0 THEN at ELSE currentTaskIndex, "none")
  /\ budget' = budget - 1
  /\ UNCHANGED <<envVars, file, currentElementIndex, panelVars, filterVars, miscVars, prompt>>

StoreModes == {"newTask", "editTask", "search", "addProject", "addContext", "addDueDate"}

\* n/a, e/i/Enter, /, d open the command bar; p and c of the first hook
\* (useKeyboardNavigation next to the legacy engine) open it for tags
OOpenBar(mode) ==
  /\ StoreKey
  /\ mode \in StoreModes
  /\ mode \in {"editTask", "addDueDate", "addProject", "addContext"} => focusedPanel = "tasks"
  /\ mode = "editTask" => HasCurrent
  /\ prompt' = mkPrompt(mode, 0, IF mode = "editTask" THEN Current.text ELSE <<>>,
                        searchFilter, currentTaskIndex)
  /\ budget' = budget - 1
  /\ last' = withKey(UiKey, keyOfEntry(mode))
  /\ UNCHANGED <<envVars, dataVars, file, inflight, cursorVars, panelVars, filterVars, miscVars>>

\* Escape in the command bar: closeCommandBar
OCancelBar ==
  /\ impl = "opentui" /\ ~exited /\ prompt.kind # "none"
  /\ prompt' = NoPrompt
  /\ last' = Cancelled
  /\ UNCHANGED <<envVars, dataVars, file, inflight, cursorVars, panelVars, filterVars,
                 miscVars, budget>>

\* Any other key in the command bar: CommandBar edits its own value and
\* cursor (no onChange is passed to it), the hook returns at once
OPromptType ==
  /\ impl = "opentui" /\ ~exited /\ prompt.kind # "none" /\ budget > 0
  /\ budget' = budget - 1
  /\ last' = mkLast("type", 0, tasks, today, last.op, last.id)
  /\ UNCHANGED <<envVars, dataVars, file, inflight, cursorVars, panelVars, filterVars,
                 miscVars, prompt>>

StoreInputs(mode, text) ==
  CASE mode = "newTask"    -> TextInputs
    [] mode = "editTask"   -> EditInputs(text) \cup { <<>> }
    [] mode = "search"     -> SearchInputs
    [] mode = "addDueDate" -> DateInputs
    [] OTHER -> TagInputs

\* The task a command-bar submission produces from the selected one
submitted(mode, t, value) ==
  CASE mode = "editTask"   -> withText(t, value)
    [] mode = "addProject" -> pushProject(t, value)
    [] mode = "addContext" -> pushContext(t, value)
    [] OTHER -> withDue(t, value)

\* A submit that appends the tag whether or not the task has it
submitActs_anyTag(mode, value) ==
  /\ HasCurrent
  /\ CASE mode = "editTask"   -> Trim(value) # <<>> /\ value # Current.text
       [] mode = "addProject" -> Trim(value) # <<>>
       [] mode = "addContext" -> Trim(value) # <<>>
       [] mode = "addDueDate" -> isDateInput(value)
       [] OTHER -> FALSE

\* Whether the branch of handleCommandBarSubmit for the mode changes a task
submitActs(mode, value) ==
  /\ HasCurrent
  /\ CASE mode = "editTask"   -> Trim(value) # <<>> /\ value # Current.text
       [] mode = "addProject" -> Trim(value) # <<>> /\ value \notin Range(Current.projects)
       [] mode = "addContext" -> Trim(value) # <<>> /\ value \notin Range(Current.contexts)
       [] mode = "addDueDate" -> isDateInput(value)
       [] OTHER -> FALSE

\* Enter in the command bar: handleCommandBarSubmit(value, filePath)
OSubmit(value) ==
  /\ impl = "opentui" /\ ~exited /\ prompt.kind # "none"
  /\ value \in StoreInputs(prompt.kind, prompt.taskText)
  /\ IF prompt.kind = "newTask" /\ Trim(value) # <<>>
     THEN /\ LET t  == newTask(tasks, value, today)
                 ts == Append(tasks, t)
                 at == findIndex(viewOf(ts), t.id)
             IN  StoreSave("newTask", t.id, ts, IF at >= 0 THEN at ELSE currentTaskIndex, "closeBar")
          /\ prompt' = IF filePathSet THEN prompt ELSE NoPrompt
          /\ UNCHANGED <<searchFilter>>
     ELSE IF submitActs(prompt.kind, value)
     THEN /\ LET id == Current.id
                 f == [t \in Known |-> submitted(prompt.kind, t, value)]
             IN  StoreSave(prompt.kind, id, mapAll(tasks, id, f), currentTaskIndex, "closeBar")
          /\ prompt' = IF filePathSet THEN prompt ELSE NoPrompt
          /\ UNCHANGED <<searchFilter>>
     ELSE IF prompt.kind = "search"
     THEN /\ searchFilter' = value
          /\ filteredTasks' = computeFiltered(tasks, activeFilter, showCompleted, value, sortMode, today)
          /\ viewLive' = viewIds(filteredTasks')
          /\ currentTaskIndex' = 0
          /\ prompt' = NoPrompt
          /\ last' = UiKey
          /\ UNCHANGED <<tasks, history, aliased, inflight>>
     ELSE /\ prompt' = NoPrompt
          /\ last' = UiKey
          /\ UNCHANGED <<dataVars, inflight, currentTaskIndex, searchFilter>>
  /\ UNCHANGED <<envVars, file, currentElementIndex, panelVars, showCompleted, sortMode,
                 activeFilter, miscVars, budget>>

StorePanels == <<"tasks", "priorities", "projects", "contexts">>

\* Escape: back to the task list, else clear the filter, else nothing
OEscape ==
  /\ StoreKey
  /\ IF focusedPanel # "tasks"
     THEN /\ focusedPanel' = "tasks" /\ panelCursorIndex' = 0
          /\ UNCHANGED <<filteredTasks, viewLive, activeFilter, currentTaskIndex>>
     ELSE IF activeFilter # NoFilter
     THEN /\ activeFilter' = NoFilter
          /\ filteredTasks' = computeFiltered(tasks, NoFilter, showCompleted, searchFilter, sortMode, today)
          /\ viewLive' = viewIds(filteredTasks')
          /\ currentTaskIndex' = 0
          /\ UNCHANGED <<focusedPanel, panelCursorIndex>>
     ELSE UNCHANGED <<focusedPanel, panelCursorIndex, filteredTasks, viewLive, activeFilter,
                      currentTaskIndex>>
  /\ budget' = budget - 1
  /\ last' = Pressed("escape")
  /\ UNCHANGED <<envVars, tasks, history, aliased, file, inflight, prompt, miscVars>>
  /\ UNCHANGED <<currentElementIndex, projectsCursorIndex, contextsCursorIndex, showCompleted,
                 sortMode, searchFilter>>

\* Ctrl+C in the hook: appContext.renderer.cleanup() if the renderer of the
\* library has such a method (hasCleanup), then process.exit(0) in any case
OCtrlC(hasCleanup) ==
  /\ StoreKey
  /\ terminal' = IF hasCleanup THEN Restored ELSE terminal
  /\ exited' = TRUE
  /\ budget' = budget - 1
  /\ last' = Pressed("ctrl-c")
  /\ UNCHANGED <<impl, filePathSet, today, dataVars, file, inflight, cursorVars, panelVars,
                 filterVars, miscVars, prompt>>

\* Tab
OTab ==
  /\ StoreKey
  /\ focusedPanel' = StorePanels[((indexOf(StorePanels, focusedPanel) + 1) % Len(StorePanels)) + 1]
  /\ panelCursorIndex' = 0
  /\ budget' = budget - 1
  /\ last' = Pressed("tab")
  /\ UNCHANGED <<envVars, tasks, history, aliased, file, inflight, prompt, miscVars>>
  /\ UNCHANGED <<filteredTasks, viewLive, cursorVars, projectsCursorIndex, contextsCursorIndex,
                 filterVars>>

\* getCurrentCursorIndex
panelCursor ==
  IF focusedPanel = "projects" THEN projectsCursorIndex
  ELSE IF focusedPanel = "contexts" THEN contextsCursorIndex
  ELSE panelCursorIndex

\* Up / k and Down / j
OUpDown(down) ==
  /\ StoreKey
  /\ IF focusedPanel = "tasks"
     THEN /\ IF down THEN currentTaskIndex < Len(filteredTasks) - 1 ELSE currentTaskIndex > 0
          /\ currentTaskIndex' = IF down THEN currentTaskIndex + 1 ELSE currentTaskIndex - 1
          /\ UNCHANGED <<panelCursorIndex, projectsCursorIndex, contextsCursorIndex>>
     ELSE /\ IF down THEN panelCursor < getPanelItemCount(focusedPanel) - 1 ELSE panelCursor > 0
          /\ LET n == IF down THEN panelCursor + 1 ELSE panelCursor - 1
             IN  /\ projectsCursorIndex' = IF focusedPanel = "projects" THEN n ELSE projectsCursorIndex
                 /\ contextsCursorIndex' = IF focusedPanel = "contexts" THEN n ELSE contextsCursorIndex
                 /\ panelCursorIndex' = IF focusedPanel \in {"projects", "contexts"}
                                        THEN panelCursorIndex ELSE n
          /\ UNCHANGED currentTaskIndex
  /\ budget' = budget - 1
  /\ UiOnly
  /\ UNCHANGED <<filteredTasks, viewLive, currentElementIndex, focusedPanel, filterVars>>

\* An Enter that returns at once when the cursor of the panel is on no item
OEnterPanel_onlyOnItem ==
  /\ StoreKey
  /\ focusedPanel # "tasks"
  /\ IF panelCursor < getPanelItemCount(focusedPanel)
     THEN /\ activeFilter' = panelFilter(focusedPanel, panelCursor)
          /\ filteredTasks' = computeFiltered(tasks, activeFilter', showCompleted, searchFilter,
                                              sortMode, today)
          /\ viewLive' = viewIds(filteredTasks')
          /\ focusedPanel' = "tasks"
          /\ panelCursorIndex' = 0
          /\ currentTaskIndex' = 0
     ELSE UNCHANGED <<activeFilter, filteredTasks, viewLive, focusedPanel, panelCursorIndex,
                      currentTaskIndex>>
  /\ budget' = budget - 1
  /\ last' = Pressed("enter")
  /\ UNCHANGED <<envVars, tasks, history, aliased, file, inflight, prompt, miscVars>>
  /\ UNCHANGED <<currentElementIndex, projectsCursorIndex, contextsCursorIndex, showCompleted,
                 sortMode, searchFilter>>

\* Enter on a side panel: applyPanelFilter
OEnterPanel ==
  /\ StoreKey
  /\ focusedPanel # "tasks"
  /\ activeFilter' = panelFilter(focusedPanel, panelCursor)
  /\ filteredTasks' = computeFiltered(tasks, activeFilter', showCompleted, searchFilter, sortMode, today)
  /\ viewLive' = viewIds(filteredTasks')
  /\ focusedPanel' = "tasks"
  /\ panelCursorIndex' = 0
  /\ currentTaskIndex' = 0
  /\ budget' = budget - 1
  /\ last' = Pressed("enter")
  /\ UNCHANGED <<envVars, tasks, history, aliased, file, inflight, prompt, miscVars>>
  /\ UNCHANGED <<currentElementIndex, projectsCursorIndex, contextsCursorIndex, showCompleted,
                 sortMode, searchFilter>>

\* v: toggleShowCompleted
OToggleShow ==
  /\ StoreKey
  /\ showCompleted' = ~showCompleted
  /\ filteredTasks' = computeFiltered(tasks, activeFilter, showCompleted', searchFilter, sortMode, today)
  /\ viewLive' = viewIds(filteredTasks')
  /\ currentTaskIndex' = IF currentTaskIndex >= Len(filteredTasks')
                         THEN max0(Len(filteredTasks') - 1) ELSE currentTaskIndex
  /\ budget' = budget - 1
  /\ UiOnly
  /\ UNCHANGED <<currentElementIndex, panelVars, sortMode, searchFilter, activeFilter>>

\* s: cycleSortMode
OCycleSort ==
  /\ StoreKey
  /\ sortMode' = SortModes[((indexOf(SortModes, sortMode) + 1) % Len(SortModes)) + 1]
  /\ filteredTasks' = computeFiltered(tasks, activeFilter, showCompleted, searchFilter, sortMode', today)
  /\ viewLive' = viewIds(filteredTasks')
  /\ budget' = budget - 1
  /\ UiOnly
  /\ UNCHANGED <<cursorVars, panelVars, showCompleted, searchFilter, activeFilter>>

-----------------------------------------------------------------------------
(* The parser functions applied to files of a few lines                    *)

\* A conversion to numbers that wraps around after 9 instead of clamping
convertPriorities_wrap(ts, targetFormat) ==
  [i \in 1..Len(ts) |->
     LET p == ts[i].priority
     IN  IF p = NULL THEN ts[i]
         ELSE IF targetFormat = "number"
         THEN [ts[i] EXCEPT !.priority =
                 IF p \in Letters THEN DigitSeq[(indexOf(LetterSeq, p) % 10) + 1] ELSE p]
         ELSE [ts[i] EXCEPT !.priority =
                 IF p \in Digits THEN LetterSeq[indexOf(DigitSeq, p) + 1] ELSE p]]

\* convertPriorities: String(Math.min(letterIndex, 9)) for a letter when the
\* target is number, String.fromCharCode('A' + numIndex) for a digit when
\* the target is letter, the task itself when it has no priority
convertPriorities(ts, targetFormat) ==
  [i \in 1..Len(ts) |->
     LET p == ts[i].priority
     IN  IF p = NULL THEN ts[i]
         ELSE IF targetFormat = "number"
         THEN [ts[i] EXCEPT !.priority =
                 IF p \in Letters THEN DigitSeq[min2(indexOf(LetterSeq, p), 9) + 1] ELSE p]
         ELSE [ts[i] EXCEPT !.priority =
                 IF p \in Digits THEN LetterSeq[indexOf(DigitSeq, p) + 1] ELSE p]]

\* A line written field by field, single spaces between the fields
taskLine(done, compD, prio, creaD, text) ==
  JoinSp(  (IF done THEN <<<<"x">>>> ELSE <<>>)
        \o (IF compD # NULL THEN <<<<compD>>>> ELSE <<>>)
        \o (IF prio # NULL THEN <<<<"(", prio, ")">>>> ELSE <<>>)
        \o (IF creaD # NULL THEN <<<<creaD>>>> ELSE <<>>)
        \o <<text>>)

\* The task lines the parser functions are applied to: every combination
\* of the fields in the order of the format (a completion date only after
\* the completion marker), and a line with tags
WellFormedLines ==
  { taskLine(f.done, f.compD, prio, creaD, <<"w">>) :
      f \in { [done |-> FALSE, compD |-> NULL], [done |-> TRUE, compD |-> NULL],
              [done |-> TRUE, compD |-> "D1"] },
      prio \in {NULL, "A", "I", "J", "Z", "0", "9"},
      creaD \in {NULL, "D2"} }
  \cup { <<"v", " ", "+", "h", " ", "@", "k", " ", "due", ":", "D3">> }

\* The lines of the files: task lines, a blank line, a line of spaces
ParserLines == WellFormedLines \cup { <<>>, <<" ">> }

\* The files: up to MaxLines lines
ParserContents == UNION { [1..n -> ParserLines] : n \in 0..MaxLines }

\* Nothing is loaded yet; the file is any of the contents
InitParser ==
  /\ file \in ParserContents
  /\ impl = "opentui"
  /\ filePathSet = TRUE
  /\ today = FirstDay
  /\ exited = FALSE
  /\ terminal = Interactive
  /\ tasks = <<>>
  /\ filteredTasks = <<>>
  /\ viewLive = {}
  /\ history = <<>>
  /\ aliased = {}
  /\ inflight = <<>>
  /\ currentTaskIndex = 0
  /\ currentElementIndex = 0
  /\ focusedPanel = "tasks"
  /\ panelCursorIndex = 0
  /\ projectsCursorIndex = 0
  /\ contextsCursorIndex = 0
  /\ showCompleted = FALSE
  /\ sortMode = "priority"
  /\ searchFilter = <<>>
  /\ activeFilter = NoFilter
  /\ priorityMode = "letter"
  /\ prompt = NoPrompt
  /\ showFormatMismatchDialog = FALSE
  /\ yankedTask = <<>>
  /\ deleted = {}
  /\ budget = 0
  /\ last = UiKey

\* loadTasks: parseTodoFile(content)
PParse ==
  /\ last.op = "ui"
  /\ tasks' = parseTodoFile(file)
  /\ last' = mkLast("parse", 0, tasks, today, last.op, last.id)
  /\ UNCHANGED <<envVars, filteredTasks, viewLive, history, aliased, file, inflight, cursorVars,
                 panelVars, filterVars, miscVars, prompt, budget>>

\* convertTasksToFormat: convertPriorities(tasks, targetFormat)
PConvert(targetFormat) ==
  /\ last.op = "parse"
  /\ tasks' = convertPriorities(tasks, targetFormat)
  /\ last' = withKey(mkLast("convert", 0, tasks, today, last.op, last.id), targetFormat)
  /\ UNCHANGED <<envVars, filteredTasks, viewLive, history, aliased, file, inflight, cursorVars,
                 panelVars, filterVars, miscVars, prompt, budget>>

\* saveTasks: serializeTodoFile(tasks)
PSerialize ==
  /\ last.op \in {"parse", "convert"}
  /\ file' = serializeTodoFile(tasks)
  /\ last' = mkLast("serialize", 0, tasks, today, last.op, last.id)
  /\ UNCHANGED <<envVars, dataVars, inflight, cursorVars, panelVars, filterVars, miscVars,
                 prompt, budget>>

NextParser ==
  \/ PParse
  \/ \E targetFormat \in {"letter", "number"} : PConvert(targetFormat)
  \/ PSerialize

SpecParser == InitParser /\ [][NextParser]_vars

-----------------------------------------------------------------------------
(* The specifications                                                      *)

\* The keys whose priority the model presses
PriorityKeys == {"B", "G", "1"}

PromptOpeners == {"addProject", "addContext", "addDueDate", "newTask"}

Next ==
  \/ LToggle
  \/ \E ch \in PriorityKeys : LSetPriority(ch)
  \/ LDeleteElement
  \/ LUndo
  \/ LReload
  \/ \E kind \in PromptOpeners : LOpenPrompt(kind)
  \/ LOpenEdit
  \/ LOpenDelete
  \/ LOpenPurge
  \/ LOpenSearch
  \/ LPromptCancel
  \/ \E value \in TagInputs \cup DateInputs : LSubmitTag(value)
  \/ \E value \in EditInputs(prompt.taskText) : LSubmitEdit(value)
  \/ \E value \in TextInputs : LSubmitNew(value)
  \/ \E value \in ConfirmInputs : LSubmitConfirm(value)
  \/ \E value \in SearchInputs, cancel \in BOOLEAN : LCloseSearch(value, cancel)
  \/ \E value \in SearchInputs : LPromptType(value)
  \/ LDebounceFire
  \/ LEscape
  \/ LTab
  \/ \E down \in BOOLEAN : LUpDown(down)
  \/ \E right \in BOOLEAN : LLeftRight(right)
  \/ LEnterPanel
  \/ LToggleShow
  \/ LCycleSort
  \/ OToggle
  \/ OUndo
  \/ \E ch \in PriorityKeys : OSetPriority(ch)
  \/ OYank
  \/ OPaste
  \/ \E mode \in StoreModes : OOpenBar(mode)
  \/ OCancelBar
  \/ OPromptType
  \/ \E value \in StoreInputs(prompt.kind, prompt.taskText) : OSubmit(value)
  \/ OEscape
  \/ OTab
  \/ \E down \in BOOLEAN : OUpDown(down)
  \/ OEnterPanel
  \/ OToggleShow
  \/ OCycleSort
  \/ \E i \in 1..Len(inflight) : FileOpDone(i)
  \/ Tick

Spec == Init /\ [][Next]_vars

\* Toggle and undo only, on one task, long enough to fill the history
NextHistory ==
  \/ LToggle
  \/ LUndo
  \/ LUndoNothing
  \/ OToggle
  \/ OUndo
  \/ OUndoNothing
  \/ \E i \in 1..Len(inflight) : FileOpDone(i)

SpecHistory == InitHistory /\ [][NextHistory]_vars

\* Moving between and inside the panels and leaving the program, long
\* enough to leave a panel and come back to it
NextPanels ==
  \/ LEscape
  \/ LTab
  \/ \E down \in BOOLEAN : LUpDown(down)
  \/ LEnterPanel
  \/ OEscape
  \/ OTab
  \/ \E down \in BOOLEAN : OUpDown(down)
  \/ OEnterPanel
  \/ LCtrlC
  \/ \E hasCleanup \in BOOLEAN : OCtrlC(hasCleanup)

SpecPanels == InitPanels /\ [][NextPanels]_vars

\* The keys pressed in SpecKeys
ModeKeys == {"B", "1", "U", "c"}

\* Priority symbols of both formats in both priority modes, and undo
NextKeys ==
  \/ \E ch \in ModeKeys : LSetPriority(ch)
  \/ \E ch \in ModeKeys : LKeyIgnored(ch)
  \/ LUndo
  \/ \E ch \in ModeKeys : OSetPriority(ch)
  \/ \E ch \in ModeKeys : OKeyIgnored(ch)
  \/ OShiftU
  \/ OUndo
  \/ \E i \in 1..Len(inflight) : FileOpDone(i)

SpecKeys == InitKeys /\ [][NextKeys]_vars

\* Mutations whose write may fail
NextFaults ==
  \/ LToggle
  \/ \E down \in BOOLEAN : LUpDown(down)
  \/ OToggle
  \/ \E down \in BOOLEAN : OUpDown(down)
  \/ \E mode \in StoreModes : OOpenBar(mode)
  \/ \E value \in StoreInputs(prompt.kind, prompt.taskText) : OSubmit(value)
  \/ \E i \in 1..Len(inflight) : FileOpDone(i)
  \/ \E i \in 1..Len(inflight), dies \in BOOLEAN : FileOpFailed(i, dies)

SpecFaults == InitFaults /\ [][NextFaults]_vars

\* The legacy engine with the cursor moved over the rows and their elements
\* and delete or space pressed there
NextElements ==
  \/ \E down \in BOOLEAN : LUpDown(down)
  \/ \E right \in BOOLEAN : LLeftRight(right)
  \/ LDeleteElement
  \/ LDeleteNothing
  \/ LToggle
  \/ \E i \in 1..Len(inflight) : FileOpDone(i)

SpecElements == InitElements /\ [][NextElements]_vars

-----------------------------------------------------------------------------
(* Properties                                                              *)

\* The step handles a key (every step but the completion of a file
\* operation and midnight)
KeyStep == Len(inflight') >= Len(inflight) /\ today' = today

MutatingOps ==
  {"toggle", "setPriority", "addProject", "addContext", "addDueDate", "edit", "editTask",
   "newTask", "deleteTask", "deleteElement", "purge", "paste"}

taskOf(ts, id) == ts[CHOOSE i \in 1..Len(ts) : ts[i].id = id]

C2_HistoryBounded ==
  [][/\ Len(history') <= HistoryLimit
     /\ (\/ history' # history /\ Len(history') >= Len(history)
         \/ KeyStep /\ last'.op \in MutatingOps /\ Len(inflight') > Len(inflight))
        => history' = (IF Len(history) = HistoryLimit THEN Tail(history) ELSE history)
                        \o <<tasks>>]_vars

\* The history is full and a snapshot had to be evicted to get there
C2_Witness ==
  /\ Len(history) = HistoryLimit
  /\ budget = DeepSteps - (HistoryLimit + 1)
  /\ last.op = "toggle"

\* C3: with a file path given, once no write is in progress after a
\* mutating action or an undo, the file is the serialization of the
\* collection in memory.
C3_FileEqualsMemory ==
  (/\ filePathSet /\ ~exited
   /\ last.op \in MutatingOps \cup {"undo"}
   /\ inflight = <<>>)
  => file = serializeTodoFile(tasks)

\* C4: no key is handled while a handler started by an earlier key is still
\* waiting for its write.
C4_NoOverlap == [][KeyStep => inflight = <<>>]_vars

\* The last two keys toggled the same task, which is still in the
\* collection and in the snapshot taken before the first of the two
ToggledTwice ==
  /\ last.op = "toggle" /\ last.was = "toggle" /\ last.id = last.wasId
  /\ Len(history) >= 2
  /\ hasId(tasks, last.id)
  /\ hasId(history[Len(history) - 1], last.id)

\* The task as it was before the first of the two toggles
BeforeToggles == taskOf(history[Len(history) - 1], last.id)

SameCompletion(a, b) == a.completed = b.completed /\ a.completionDate = b.completionDate

\* C5 as stated: toggling a task twice returns completed and completionDate
\* to what they were, whatever they were.
C5_ToggleTwiceRestoresAny ==
  ToggledTwice => SameCompletion(taskOf(tasks, last.id), BeforeToggles)

\* C5 amended: toggling a task twice returns completed to what it was, and
\* returns completionDate to what it was when the task was active with no
\* completion date, or completed with the date of the day of the second
\* toggle.
C5_ToggleTwiceRestores ==
  ToggledTwice =>
    /\ taskOf(tasks, last.id).completed = BeforeToggles.completed
    /\ (\/ ~BeforeToggles.completed /\ BeforeToggles.completionDate = NULL
        \/ BeforeToggles.completed /\ BeforeToggles.completionDate = isoDate(last.day))
       => SameCompletion(taskOf(tasks, last.id), BeforeToggles)

\* A task completed today was toggled off and on again
C5_Witness ==
  /\ ToggledTwice
  /\ BeforeToggles.completed
  /\ BeforeToggles.completionDate = isoDate(last.day)
  /\ SameCompletion(taskOf(tasks, last.id), BeforeToggles)

\* C6: every task of the collection that has a completion date is
\* completed; in particular a task toggled to active has none.
C6_DateImpliesCompleted ==
  \A i \in 1..Len(tasks) : tasks[i].completionDate # NULL => tasks[i].completed

\* A task that was completed with a date has just been toggled to active
C6_Witness ==
  /\ last.op = "toggle"
  /\ hasId(last.pre, last.id) /\ hasId(tasks, last.id)
  /\ taskOf(last.pre, last.id).completed
  /\ taskOf(last.pre, last.id).completionDate # NULL
  /\ ~taskOf(tasks, last.id).completed
  /\ taskOf(tasks, last.id).completionDate = NULL

\* C7: a toggle leaves the collection as it was except for the completed
\* flag and the completion date of the toggled task.
C7_ToggleFrame ==
  [][(KeyStep /\ last'.op = "toggle" /\ last' # last) =>
       /\ Len(tasks') = Len(tasks)
       /\ \A i \in 1..Len(tasks) :
            IF tasks[i].id = last'.id
            THEN tasks'[i] = [tasks[i] EXCEPT !.completed = tasks'[i].completed,
                                              !.completionDate = tasks'[i].completionDate]
            ELSE tasks'[i] = tasks[i]]_vars

\* A task with a priority, a creation date and a tag was toggled to completed
C7_Witness ==
  /\ last.op = "toggle"
  /\ hasId(last.pre, last.id) /\ hasId(tasks, last.id)
  /\ ~taskOf(last.pre, last.id).completed
  /\ taskOf(tasks, last.id).completed
  /\ taskOf(tasks, last.id).priority # NULL
  /\ taskOf(tasks, last.id).projects # <<>>
  /\ Len(tasks) > 1

\* The last key created a task at the end of the collection
Created ==
  /\ last.op \in {"newTask", "paste"}
  /\ tasks # <<>>
  /\ tasks[Len(tasks)].id = last.id

\* C8: a task created by new-task or paste is appended with an id one above
\* the largest id of the collection it is added to, and with id 1 when that
\* collection is empty.
C8_NewIdIsMaxPlusOne ==
  last.op \in {"newTask", "paste"} =>
    /\ tasks = Append(last.pre, tasks[Len(tasks)])
    /\ tasks[Len(tasks)].id = last.id
    /\ \A i \in 1..Len(last.pre) : last.pre[i].id < last.id
    /\ IF last.pre = <<>> THEN last.id = 1 ELSE hasId(last.pre, last.id - 1)

\* A task was pasted into a collection whose ids are not 1..n
C8_Witness ==
  /\ Created /\ last.op = "paste"
  /\ Len(last.pre) = 1 /\ last.pre[1].id = 2
  /\ last.id = 3

\* C9: a task created by new-task or paste never gets the id of a task
\* deleted earlier in the session.
C9_NoIdReuse == Created => last.id \notin deleted

\* The predicate of an active filter, as the specification words it
matchesFilter(t, af) ==
  CASE af.type = "priority"   -> t.priority # NULL /\ <<t.priority>> = af.value
    [] af.type = "project"    -> \E i \in 1..Len(t.projects) : t.projects[i] = af.value
    [] af.type = "context"    -> \E i \in 1..Len(t.contexts) : t.contexts[i] = af.value
    [] af.type = "dueOverdue" -> isOverdue(t, today) \/ isDueToday(t, today)
    [] af.type = "doneToday"  -> isCompletedToday(t, today)
    [] af.type = "active"     -> ~t.completed
    [] OTHER -> TRUE

matchesSearch(t) ==
  \/ searchFilter = <<>>
  \/ Includes(ToLower(t.text), ToLower(searchFilter))
  \/ \E i \in 1..Len(t.contexts) : Includes(ToLower(t.contexts[i]), ToLower(searchFilter))
  \/ \E i \in 1..Len(t.projects) : Includes(ToLower(t.projects[i]), ToLower(searchFilter))

\* Every task of the collection is in the visible list iff it should be
ViewAsSpecified ==
  \A i \in 1..Len(tasks) :
    hasId(filteredTasks, tasks[i].id) <=>
      /\ matchesSearch(tasks[i])
      /\ IF activeFilter # NoFilter
         THEN matchesFilter(tasks[i], activeFilter)
         ELSE tasks[i].completed => showCompleted

\* C10: whenever the active filter, the show-completed toggle or the search
\* text changes, the visible list that results holds exactly the tasks that
\* satisfy the active filter and the search text, whatever show-completed
\* says, and with no active filter exactly the tasks that satisfy the
\* search text and are active or shown because show-completed is on.
C10_FilterOverridesShowCompleted ==
  [][(activeFilter' # activeFilter \/ showCompleted' # showCompleted
        \/ searchFilter' # searchFilter) => ViewAsSpecified']_vars

\* Filter priority A with show-completed off: the completed (A) task is
\* visible, the active (B) task is not
C10_Witness ==
  /\ activeFilter = [type |-> "priority", value |-> <<"A">>]
  /\ ~showCompleted
  /\ \E i \in 1..Len(filteredTasks) :
       filteredTasks[i].completed /\ filteredTasks[i].priority = "A"
  /\ \E i \in 1..Len(tasks) :
       /\ ~tasks[i].completed /\ tasks[i].priority = "B"
       /\ ~hasId(filteredTasks, tasks[i].id)

\* C11: while the program runs, no completed task precedes an active task
\* in the visible list.
C11_CompletedLast ==
  ~exited =>
    \A i, j \in 1..Len(filteredTasks) :
      i < j => ~(filteredTasks[i].completed /\ ~filteredTasks[j].completed)

\* The sort key of a task in a sort mode; <<>> when the task lacks it
sortKey(t, mode) ==
  CASE mode = "priority" -> IF t.priority = NULL THEN <<>> ELSE <<t.priority>>
    [] mode = "date"     -> IF t.creationDate = NULL THEN <<>> ELSE <<t.creationDate>>
    [] mode = "project"  -> firstOrEmpty(t.projects)
    [] OTHER             -> firstOrEmpty(t.contexts)

\* C12: while the program runs, within each completion group of the visible
\* list, tasks without the active sort key come after all tasks that have
\* it, and tasks with equal keys are in ascending id order.
C12_MissingKeyLast ==
  \A i, j \in 1..Len(filteredTasks) :
    (~exited /\ i < j /\ filteredTasks[i].completed = filteredTasks[j].completed) =>
      /\ sortKey(filteredTasks[j], sortMode) # <<>> => sortKey(filteredTasks[i], sortMode) # <<>>
      /\ sortKey(filteredTasks[i], sortMode) = sortKey(filteredTasks[j], sortMode)
           => filteredTasks[i].id < filteredTasks[j].id

\* The stored tags and metadata of a task are those its text yields
Derived(t) ==
  /\ t.projects = extractProjects(t.text)
  /\ t.contexts = extractContexts(t.text)
  /\ t.metadata = extractMetadata(t.text)

\* C13: for every task of the collection, extracting the +project, @context
\* and key:value tokens from its text yields exactly its stored projects,
\* contexts and metadata.
C13_DerivedFields == \A i \in 1..Len(tasks) : Derived(tasks[i])

\* How many times tag stands in a tag list
Count(tags, tag) == Cardinality({i \in 1..Len(tags) : tags[i] = tag})

\* C14: Enter or Escape in an add-project (add-context) entry never adds an
\* occurrence of a tag the selected task already has, and leaves the text
\* of the task as it was when its tag lists are as they were.
C14_NoDuplicateTag ==
  [][(/\ KeyStep
      /\ prompt.kind \in {"addProject", "addContext"}
      /\ HasCurrent /\ hasId(tasks, Current.id) /\ hasId(tasks', Current.id))
     => LET a == taskOf(tasks, Current.id)
            b == taskOf(tasks', Current.id)
        IN  /\ \A i \in 1..Len(a.projects) :
                 Count(b.projects, a.projects[i]) = Count(a.projects, a.projects[i])
            /\ \A i \in 1..Len(a.contexts) :
                 Count(b.contexts, a.contexts[i]) = Count(a.contexts, a.contexts[i])
            /\ (b.projects = a.projects /\ b.contexts = a.contexts) => b.text = a.text]_vars

\* Add-project was committed with a tag the task already had, and the
\* collection is what it was
C14_Witness ==
  /\ last.op = "addProject"
  /\ tasks = last.pre
  /\ hasId(tasks, last.id)
  /\ <<"h">> \in Range(taskOf(tasks, last.id).projects)

\* C15: a paste with a yanked task appends exactly one task that has the
\* text, priority, projects, contexts and metadata of the yanked copy, an id
\* no task of the collection has, completed false, no completion date and
\* today as creation date, and pushes one snapshot of the collection before
\* the paste; a paste with nothing yanked leaves collection and history.
C15_PasteCopies ==
  [][/\ (KeyStep /\ last'.op = "paste" /\ budget' < budget) =>
          /\ yankedTask # <<>>
          /\ Len(tasks') = Len(tasks) + 1
          /\ SubSeq(tasks', 1, Len(tasks)) = tasks
          /\ LET y == yankedTask[1]
                 t == tasks'[Len(tasks')]
             IN  /\ t.text = y.text /\ t.priority = y.priority
                 /\ t.projects = y.projects /\ t.contexts = y.contexts
                 /\ t.metadata = y.metadata
                 /\ ~hasId(tasks, t.id)
                 /\ ~t.completed /\ t.completionDate = NULL
                 /\ t.creationDate = isoDate(today)
          /\ history' = (IF Len(history) = HistoryLimit THEN Tail(history) ELSE history)
                          \o <<tasks>>
     /\ (KeyStep /\ last'.op = "pasteNothing" /\ budget' < budget) =>
          /\ yankedTask = <<>>
          /\ tasks' = tasks /\ history' = history]_vars

\* A completed task was yanked and pasted: the copy is active
C15_Witness ==
  /\ last.op = "paste"
  /\ yankedTask # <<>> /\ yankedTask[1].completed
  /\ tasks # <<>>
  /\ ~tasks[Len(tasks)].completed
  /\ tasks[Len(tasks)].text = yankedTask[1].text

\* What a commit of an entry of the given kind is recorded as
CommitOps(kind) ==
  CASE kind = "confirmDelete" -> {"deleteTask"}
    [] kind = "confirmPurge"  -> {"purge"}
    [] kind = "editTask"      -> {"editTask", "edit"}
    [] OTHER                  -> {kind}

\* C16: while an entry is open, a key changes the collection, the history,
\* the panel focus or the sort mode only as the commit (Enter) of that entry;
\* no Normal-mode action runs.
C16_EntrySuppressesNormal ==
  [][(/\ prompt.kind # "none" /\ KeyStep
      /\ <<tasks, history, focusedPanel, sortMode>>' # <<tasks, history, focusedPanel, sortMode>>)
     => /\ last'.op \in CommitOps(prompt.kind)
        /\ focusedPanel' = focusedPanel /\ sortMode' = sortMode]_vars

\* A key typed into the search entry changed the live search filter and
\* nothing else
C16_Witness ==
  /\ prompt.kind = "search"
  /\ last.op = "type"
  /\ searchFilter # prompt.origFilter
  /\ tasks = last.pre

\* C17: Escape in an entry leaves the collection, the history, the active
\* filter and the sort mode as they are; Escape in a search entry leaves the
\* search string and the task cursor at the values they had when the entry
\* opened.
C17_CancelRestores ==
  [][(KeyStep /\ prompt.kind # "none" /\ last'.op = "cancel") =>
       /\ tasks' = tasks /\ history' = history
       /\ activeFilter' = activeFilter /\ sortMode' = sortMode
       /\ prompt.kind = "search" =>
            /\ searchFilter' = prompt.origFilter
            /\ currentTaskIndex' = prompt.origIndex]_vars

\* C18: Escape or q in Normal mode returns focus to Tasks when another panel
\* has it; otherwise clears the active filter when one is set; otherwise
\* exits the program; and does only that one of the three.
C18_EscapeLadder ==
  [][(KeyStep /\ last'.op = "escape" /\ budget' < budget) =>
       IF focusedPanel # "tasks"
       THEN focusedPanel' = "tasks" /\ activeFilter' = activeFilter /\ ~exited'
       ELSE IF activeFilter # NoFilter
       THEN activeFilter' = NoFilter /\ focusedPanel' = "tasks" /\ ~exited'
       ELSE exited' /\ focusedPanel' = "tasks" /\ activeFilter' = NoFilter]_vars

\* The focus ring of the specification
FocusRing == <<"tasks", "priorities", "stats", "projects", "contexts">>

\* C19: Tab moves the focus from a panel to the one after it in the ring
\* Tasks, Priorities, Stats, Projects, Contexts, and from Contexts to Tasks.
C19_TabRing ==
  [][(KeyStep /\ last'.op = "tab" /\ budget' < budget) =>
       \E i \in 1..Len(FocusRing) :
         /\ FocusRing[i] = focusedPanel
         /\ focusedPanel' = FocusRing[(i % Len(FocusRing)) + 1]]_vars

\* The cursor an engine reads for a panel other than Tasks
sideCursor(panel) ==
  IF impl = "opentui" /\ panel = "projects" THEN projectsCursorIndex
  ELSE IF impl = "opentui" /\ panel = "contexts" THEN contextsCursorIndex
  ELSE panelCursorIndex

\* C20: when Tab gives the focus to a panel other than Tasks, the cursor of
\* that panel is 0 after the key.
C20_FocusResetsCursor ==
  [][(KeyStep /\ last'.op = "tab" /\ budget' < budget /\ focusedPanel' # "tasks")
       => sideCursor(focusedPanel)' = 0]_vars

\* C21: Enter on a panel other than Tasks leaves the focus on Tasks and the
\* task cursor at 0, whatever the panel and its cursor, and also when the
\* cursor of the panel is on no item and no filter is set.
C21_EnterReturnsToTasks ==
  [][(KeyStep /\ last'.op = "enter" /\ budget' < budget /\ focusedPanel # "tasks")
       => focusedPanel' = "tasks" /\ currentTaskIndex' = 0]_vars

\* Enter was pressed on a panel with nothing under its cursor: no filter
\* was set, the focus is on Tasks, the task cursor at 0
C21_Witness ==
  /\ last.op = "enter"
  /\ activeFilter = NoFilter
  /\ focusedPanel = "tasks"
  /\ currentTaskIndex = 0

\* The symbols of a priority mode: A-Z in letter mode, 0-9 in number mode
modeSymbols(mode) == Range(prioritiesOf(mode))

\* C22: a priority key sets the priority of the selected task only if its
\* symbol is one of the current mode, and a key whose symbol is not of the
\* current mode changes neither the collection nor the history.
C22_PriorityValidated ==
  [][(KeyStep /\ last'.key \in Letters \cup Digits /\ budget' < budget) =>
       /\ last'.op = "setPriority" => last'.key \in modeSymbols(priorityMode)
       /\ last'.key \notin modeSymbols(priorityMode) => tasks' = tasks /\ history' = history]_vars

\* The key of the step: p is also the key of pasteTask
pressedKey(l) == IF l.op \in {"paste", "pasteNothing"} THEN "p" ELSE l.key

\* C23: with the Tasks panel focused, p opens the entry for a project tag,
\* c the entry for a context tag and d the entry for a due date, and the key
\* press changes no task and pushes no snapshot.
C23_TagKeysOpenEntry ==
  [][(KeyStep /\ pressedKey(last') \in {"p", "c", "d"} /\ budget' < budget
        /\ focusedPanel = "tasks") =>
       /\ keyOfEntry(prompt'.kind) = pressedKey(last')
       /\ tasks' = tasks
       /\ history' = history]_vars

\* The element cursor is on the checkbox, the main text or an empty
\* priority slot of the selected task
OnFixedElement ==
  /\ HasCurrent
  /\ currentElementIndex < getTaskElementCount(Current)
  /\ LET el == elements(Current)[currentElementIndex + 1]
     IN  \/ el.kind \in {"checkbox", "text"}
         \/ el.kind = "priority" /\ Current.priority = NULL

\* C24: delete / backspace with the element cursor on the checkbox, on the
\* main text or on an empty priority slot changes neither the collection
\* nor the history nor the file, and starts no write.
C24_FixedElementsStay ==
  [][(KeyStep /\ last'.op \in {"delete", "deleteElement"} /\ budget' < budget
        /\ OnFixedElement) =>
       /\ tasks' = tasks
       /\ history' = history
       /\ file' = file
       /\ inflight' = inflight]_vars

\* delete was pressed on the main text of a task
C24_Witness ==
  /\ last.op = "delete"
  /\ HasCurrent
  /\ currentElementIndex < getTaskElementCount(Current)
  /\ elements(Current)[currentElementIndex + 1].kind = "text"

\* C25: the confirmation of delete task removes the task that was selected
\* when x was pressed if the answer is y or Y; any other answer, and Escape,
\* leave the collection and the history as they were.
C25_DeleteNeedsYes ==
  [][(impl = "legacy" /\ prompt.kind = "confirmDelete" /\ prompt'.kind = "none") =>
       IF last'.key \in {"y", "Y"}
       THEN /\ tasks' = SelectSeq(tasks, LAMBDA t : t.id # prompt.taskId)
            /\ history' = pushHistory(history, tasks)
       ELSE /\ tasks' = tasks
            /\ history' = history]_vars

\* The confirmation was answered with something else and the task is still
\* in the collection
C25_Witness ==
  /\ last.op = "refused"
  /\ last.was = "ui"
  /\ last.key = "v"
  /\ last.id # 0
  /\ hasId(tasks, last.id)
  /\ history = <<>>

\* C26: when the write of a mutating action fails and the program goes on,
\* the collection, the visible list, the history and the input mode are
\* those the handler leaves when the write succeeds: the mutation stays,
\* the visible list is the one the handler ends with, no entry is open that
\* the handler closes.
C26_FailedWriteKeepsState ==
  [][(last'.op = "writeFailed" /\ Len(inflight') < Len(inflight) /\ ~exited') =>
       \E i \in 1..Len(inflight) :
         /\ inflight' = removeAt(inflight, i)
         /\ tasks' = tasks
         /\ history' = history
         /\ filteredTasks' = resumedView(inflight[i], tasks)
         /\ prompt' = resumedPrompt(inflight[i])]_vars

\* C27: when Ctrl+C ends the process, raw input mode is off and the cursor
\* is visible at the moment the process exits.
C27_CtrlCRestoresTerminal ==
  [][(last'.op = "ctrl-c" /\ ~exited /\ exited') => terminal' = Restored]_vars

\* The content is made of task lines only, each with its fields in the
\* order of the format
WellFormed(content) == \A k \in 1..Len(content) : content[k] \in WellFormedLines

\* C28 as stated: serializing what was parsed from a well-formed content
\* gives the content back, the content without any line included.
C28_RoundTripAny ==
  [][(last.op = "parse" /\ last'.op = "serialize" /\ WellFormed(file)) => file' = file]_vars

\* C28: serializing what was parsed from a well-formed content of at least
\* one task line gives the content back.
C28_RoundTrip ==
  [][(last.op = "parse" /\ last'.op = "serialize" /\ WellFormed(file) /\ file # <<>>)
       => file' = file]_vars

\* A file of two task lines, the second one completed with both dates and a
\* priority, was parsed and written back
C28_Witness ==
  /\ last.op = "serialize"
  /\ last.was = "parse"
  /\ Len(file) = 2
  /\ WellFormed(file)
  /\ file[2] = <<"x", " ", "D1", " ", "(", "A", ")", " ", "D2", " ", "w">>

\* The lines of a content that are not blank
RECURSIVE nonBlank(_)
nonBlank(content) ==
  IF content = <<>> THEN <<>>
  ELSE (IF Trim(Head(content)) = <<>> THEN <<>> ELSE <<Head(content)>>) \o nonBlank(Tail(content))

\* C29: parseTodoFile returns one task per non-blank line, and the task of
\* the k-th non-blank line has the id k.
C29_SequentialIds ==
  [][last'.op = "parse" =>
       /\ Len(tasks') = Len(nonBlank(file))
       /\ \A k \in 1..Len(tasks') : tasks'[k].id = k]_vars

\* C30: convertPriorities to number maps A..I to 0..8 and J..Z to 9, to
\* letter it maps 0..9 to A..J; a task without priority or with a priority
\* of the target format is unchanged, no other field changes, and no
\* priority of the other format is left.
C30_ConvertPriorities ==
  [][last'.op = "convert" =>
       /\ Len(tasks') = Len(tasks)
       /\ \A i \in 1..Len(tasks) :
            LET p == tasks[i].priority
                q == tasks'[i].priority
            IN  /\ tasks'[i] = [tasks[i] EXCEPT !.priority = q]
                /\ p = NULL => q = NULL
                /\ last'.key = "number" =>
                     /\ p \in Digits => q = p
                     /\ p \in Letters /\ indexOf(LetterSeq, p) <= 8
                          => q = DigitSeq[indexOf(LetterSeq, p) + 1]
                     /\ p \in Letters /\ indexOf(LetterSeq, p) >= 9 => q = "9"
                     /\ q \notin Letters
                /\ last'.key = "letter" =>
                     /\ p \in Letters => q = p
                     /\ p \in Digits => q = LetterSeq[indexOf(DigitSeq, p) + 1]
                     /\ q \notin Digits]_vars

\* Priority Z was converted to number and is now 9
C30_Witness ==
  /\ last.op = "convert"
  /\ last.key = "number"
  /\ \E i \in 1..Len(tasks) : last.pre[i].priority = "Z" /\ tasks[i].priority = "9"

\* C31: undo is last-in-first-out.  A key that mutates pushes the collection
\* as it was before it; an undo with a snapshot on the history installs the
\* newest one, i.e. the collection as it was before the most recent action
\* not yet undone, and removes it; an undo with an empty history changes
\* neither the collection nor the history and starts no write; nothing else
\* touches the history.  So while no snapshot can have been evicted (at most
\* HistoryLimit actions and as many undos), an empty history means that
\* every action has been undone and the collection is the initial one.
C31_UndoIsLifo ==
  /\ []((history = <<>> /\ DeepSteps - budget <= 2 * HistoryLimit)
          => tasks = parseTodoFile(HistoryFile))
  /\ [][/\ (KeyStep /\ budget' < budget /\ last'.op = "undo")
            => /\ history # <<>>
               /\ tasks' = history[Len(history)]
               /\ history' = SubSeq(history, 1, Len(history) - 1)
        /\ (budget' < budget /\ last'.op = "undoNothing")
            => /\ tasks' = tasks /\ history' = history
               /\ inflight' = inflight /\ file' = file
        /\ (KeyStep /\ budget' < budget /\ last'.op \in MutatingOps)
            => history' = (IF Len(history) = HistoryLimit THEN Tail(history) ELSE history)
                            \o <<tasks>>
        /\ (budget' = budget) => (tasks' = tasks /\ history' = history)]_vars

\* Two actions were followed by two undos and the collection is the initial
\* one again
C31_Witness ==
  /\ budget = DeepSteps - 4
  /\ last.op = "undo" /\ last.was = "undo"
  /\ history = <<>>
  /\ tasks = parseTodoFile(HistoryFile)

\* No key handler is in progress: the process runs, no entry is open and no
\* file operation is pending
Idle == ~exited /\ prompt.kind = "none" /\ inflight = <<>>

C33_CursorInRange ==
  /\ 0 <= currentTaskIndex
  /\ currentTaskIndex <= (IF Len(filteredTasks) > 0 THEN Len(filteredTasks) - 1 ELSE 0)

\* C34: in every reachable state with a selected task, the element cursor is
\* less than the element count of that task (looked at when no handler is
\* in progress, so that a handler has done all it does to the cursor).
C34_ElementCursorInRange ==
  (Idle /\ HasCurrent) => currentElementIndex < getTaskElementCount(Current)

\* C35: a snapshot never changes while it is on the history.  Every step
\* leaves the history as it was, or with a copy of the collection pushed
\* (the older snapshots as they were, the oldest one dropped at the limit),
\* or with the newest snapshot popped: no assignment to a task of the live
\* collection shows in a snapshot.
C35_SnapshotsImmutable ==
  [][\/ history' = history
     \/ history' = (IF Len(history) = HistoryLimit THEN Tail(history) ELSE history)
                      \o <<tasks>>
     \/ history' = SubSeq(history, 1, Len(history) - 1)]_vars

\* A priority was assigned in place right after an undo installed a popped
\* snapshot, and the snapshot pushed before that undo is still on the
\* history, equal to the collection the session started from
C35_Witness ==
  /\ last.op = "setPriority" /\ last.was = "undo"
  /\ Len(history) = 2
  /\ history[1] = parseTodoFile(KeysFile)
  /\ tasks # history[2]

\* The commit of the open entry has been applied and its write is pending
CommitPending == \E i \in 1..Len(inflight) : inflight[i].cont = "closeBar"

\* C36: an entry applies its commit at most once: while the write of its
\* commit is pending, no key applies the commit again.
C36_CommitOnce ==
  [][(/\ prompt.kind # "none" /\ KeyStep
      /\ last'.op \in CommitOps(prompt.kind)
      /\ (tasks' # tasks \/ history' # history))
     => ~CommitPending]_vars

\* C37: once a search entry has been committed or cancelled, the search
\* string, the visible list and the task cursor change only when a key is
\* handled or a file operation completes: no debounced live-search update
\* armed in the entry fires afterwards.
C37_NoLateLiveUpdate ==
  [][(/\ prompt.kind = "none" /\ prompt'.kind = "none"
      /\ budget' = budget /\ inflight' = inflight /\ today' = today)
     => /\ searchFilter' = searchFilter
        /\ filteredTasks' = filteredTasks
        /\ currentTaskIndex' = currentTaskIndex]_vars

\* A search entry was closed while its debounce timer was pending, and the
\* search string is not the text the timer held
C37_Witness ==
  /\ prompt.kind = "none"
  /\ prompt.timer = ClearedTimer
  /\ last.op \in {"cancel", "ui"}
  /\ searchFilter = <<>>
  /\ filteredTasks # <<>>

\* C38: committing add-project or add-context with a tag the selected task
\* already has, which leaves the collection as it was, leaves the history as
\* it was.
C38_NoSnapshotWithoutChange ==
  [][(/\ KeyStep
      /\ prompt.kind \in {"addProject", "addContext"}
      /\ last'.op = prompt.kind
      /\ tasks' = tasks)
     => history' = history]_vars

\* The fields a reload has to give back
SavedFields(t) == <<t.completed, t.priority, t.completionDate, t.creationDate, t.text>>

\* C39: parsing the serialized collection yields, line by line, tasks with
\* the completed flag, priority, completion date, creation date and text of
\* the tasks in memory.
C39_SaveReloadKeepsFields ==
  LET back == parseTodoFile(serializeTodoFile(tasks))
  IN  /\ Len(back) = Len(tasks)
      /\ \A i \in 1..Len(tasks) : SavedFields(back[i]) = SavedFields(tasks[i])

\* How many tasks of ts satisfy P
CountTasks(ts, P(_)) == Cardinality({i \in 1..Len(ts) : P(ts[i])})

\* A Stats panel whose ACTIVE entry shows the number of all tasks
StatsPanel_allTasks(ts, day) ==
  LET active(t)    == ~t.completed
      due(t)       == /\ active(t) /\ dueOf(t) # <<>>
                      /\ (strLess(dueOf(t), <<isoDate(day)>>) \/ dueOf(t) = <<isoDate(day)>>)
      doneToday(t) == t.completed /\ t.completionDate = isoDate(day)
  IN  <<CountTasks(ts, due), CountTasks(ts, doneToday), Len(ts)>>

\* StatsPanel: the values of DUE/OVERDUE, DONE TODAY and ACTIVE (numerator)
StatsPanel(ts, day) ==
  LET active(t)    == ~t.completed
      due(t)       == /\ active(t) /\ dueOf(t) # <<>>
                      /\ (strLess(dueOf(t), <<isoDate(day)>>) \/ dueOf(t) = <<isoDate(day)>>)
      doneToday(t) == t.completed /\ t.completionDate = isoDate(day)
  IN  <<CountTasks(ts, due), CountTasks(ts, doneToday), CountTasks(ts, active)>>

\* renderPanelsInside: the values of the same three entries in the legacy
\* interface
renderPanelsInside(ts, day) ==
  LET active(t)    == ~t.completed
      due(t)       == active(t) /\ (isOverdue(t, day) \/ isDueToday(t, day))
      doneToday(t) == isCompletedToday(t, day)
  IN  <<CountTasks(ts, due), CountTasks(ts, doneToday), CountTasks(ts, active)>>

\* The counts the Stats panel of the running interface displays
StatsShown == IF impl = "legacy" THEN renderPanelsInside(tasks, today) ELSE StatsPanel(tasks, today)

\* The tasks visible when entry k of the Stats panel is the active filter
\* and the search text is empty
StatsSelected(k) ==
  computeFiltered(tasks, [type |-> StatsFilters[k], value |-> <<>>], showCompleted, <<>>,
                  sortMode, today)

\* C40: for every collection, the count displayed for DUE/OVERDUE, DONE
\* TODAY and ACTIVE is the number of tasks the filter of that entry lets
\* through with an empty search text, and Enter on such an entry leaves
\* that many tasks visible.
C40_StatsAgreeWithFilters ==
  /\ [](\A k \in 1..3 : StatsShown[k] = Len(StatsSelected(k)))
  /\ [][(/\ KeyStep /\ focusedPanel = "stats" /\ last'.op = "enter"
          /\ searchFilter' = <<>>)
         => \E k \in 1..3 : /\ activeFilter'.type = StatsFilters[k]
                             /\ Len(filteredTasks') = StatsShown'[k]]_vars

\* Enter on DUE/OVERDUE of the Stats panel selected some tasks of the
\* collection and not others
C40_Witness ==
  /\ last.op = "enter"
  /\ activeFilter.type = "dueOverdue"
  /\ searchFilter = <<>>
  /\ filteredTasks # <<>>
  /\ Len(filteredTasks) < Len(tasks)
  /\ Len(filteredTasks) = StatsShown[1]

====
